---- MODULE Spec2Model ----
(***************************************************************************)
(* A model of the Netlify calculator functions of murphycurves-website.    *)
(* The pump sizing handler (netlify/functions/pump.js) is a pure function   *)
(* of the request: one action runs the whole handler on a request drawn     *)
(* from bounded sets and records the handler's locals and its response.     *)
(*                                                                          *)
(* JavaScript numbers are modelled as decimal floating point values with    *)
(* 8 significant digits (every literal of pump.js has at most 8), together  *)
(* with NaN, +Infinity and -Infinity, with the IEEE-754 rules for the       *)
(* special values.  Negative zero is not modelled.                          *)
(***************************************************************************)
EXTENDS Integers, Sequences, FiniteSets, TLC

----------------------------------------------------------------------------
(* JavaScript numbers *)

E4 == 10^4
E7 == 10^7
E8 == 10^8
E9 == 10^9

Abs(i) == IF i < 0 THEN -i ELSE i
Sgn(i) == IF i < 0 THEN -1 ELSE 1

NaN == [k |-> "nan", m |-> 0, e |-> 0]
PInf == [k |-> "pinf", m |-> 0, e |-> 0]
NInf == [k |-> "ninf", m |-> 0, e |-> 0]
Zero == [k |-> "fin", m |-> 0, e |-> 0]

SInf(s) == IF s < 0 THEN NInf ELSE PInf

IsNum(x) == x.k \in {"fin", "nan", "pinf", "ninf"}
IsNaN(x) == x.k = "nan"
IsFinite(x) == x.k = "fin"
IsInf(x) == x.k \in {"pinf", "ninf"}
IsZero(x) == x.k = "fin" /\ x.m = 0

\* the sign of a number that is not NaN
Sign(x) == IF x.k = "ninf" THEN -1 ELSE IF x.k = "pinf" THEN 1 ELSE Sgn(x.m)

RECURSIVE Pow10(_)
Pow10(n) == IF n <= 0 THEN 1 ELSE 10 * Pow10(n - 1)

\* v / p rounded to the nearest integer, halves away from zero
RoundDiv(v, p) == Sgn(v) * ((Abs(v) + (p \div 2)) \div p)

RECURSIVE Scaled(_, _)
\* a magnitude a > 0 with its exponent, brought into [10^7, 10^8), rounding
\* half up
Scaled(a, e) ==
    IF a >= E8 THEN Scaled((a + 5) \div 10, e + 1)
    ELSE IF a < E4 THEN Scaled(a * E4, e - 4)
    ELSE IF a < 100 * E4 THEN Scaled(a * 100, e - 2)
    ELSE IF a < E7 THEN Scaled(a * 10, e - 1)
    ELSE <<a, e>>

\* the number of sign s and scaled magnitude p: overflow to Infinity above
\* 1e308 and underflow to 0 below 1e-324
Pack(s, p) ==
    IF p[2] + 7 > 308 THEN SInf(s)
    ELSE IF p[2] + 7 < -324 THEN Zero
    ELSE [k |-> "fin", m |-> s * p[1], e |-> p[2]]

\* the double nearest to m * 10^e, 8 digits kept
Norm(m, e) == IF m = 0 THEN Zero ELSE Pack(Sgn(m), Scaled(Abs(m), e))

\* a decimal literal m * 10^e
Dec(m, e) == Norm(m, e)
Int2Num(i) == Norm(i, 0)

Neg(x) ==
    CASE x.k = "nan" -> NaN
      [] x.k = "pinf" -> NInf
      [] x.k = "ninf" -> PInf
      [] OTHER -> [x EXCEPT !.m = -x.m]

\* -1, 0 or 1 for two finite numbers of the same sign s # 0
CmpSameSign(a, b, s) ==
    IF a.e # b.e THEN (IF a.e < b.e THEN -s ELSE s)
    ELSE IF a.m = b.m THEN 0
    ELSE IF a.m < b.m THEN -1 ELSE 1

\* -1, 0 or 1 for two finite numbers of signs sa and sb (0 for zero)
CmpFinite(a, b, sa, sb) ==
    IF sa # sb THEN (IF sa < sb THEN -1 ELSE 1)
    ELSE IF sa = 0 THEN 0
    ELSE CmpSameSign(a, b, sa)

\* -1, 0 or 1 for two numbers that are not NaN
Cmp(a, b) ==
    IF a.k = b.k /\ IsInf(a) THEN 0
    ELSE IF a.k = "pinf" \/ b.k = "ninf" THEN 1
    ELSE IF a.k = "ninf" \/ b.k = "pinf" THEN -1
    ELSE CmpFinite(a, b, IF a.m = 0 THEN 0 ELSE Sgn(a.m), IF b.m = 0 THEN 0 ELSE Sgn(b.m))

\* the comparison operators: false when an operand is NaN
Lt(a, b) == ~IsNaN(a) /\ ~IsNaN(b) /\ Cmp(a, b) < 0
Gt(a, b) == ~IsNaN(a) /\ ~IsNaN(b) /\ Cmp(a, b) > 0
Le(a, b) == ~IsNaN(a) /\ ~IsNaN(b) /\ Cmp(a, b) <= 0
Ge(a, b) == ~IsNaN(a) /\ ~IsNaN(b) /\ Cmp(a, b) >= 0
\* the strict equality ===
Eq(a, b) == ~IsNaN(a) /\ ~IsNaN(b) /\ Cmp(a, b) = 0

\* hi + lo for finite nonzero numbers with hi.e >= lo.e: lo's mantissa is
\* rounded at one digit below hi's last
AddAligned(hi, lo) ==
    IF hi.e - lo.e > 9 THEN hi
    ELSE Norm(hi.m * 10 + (IF hi.e = lo.e THEN lo.m * 10
                            ELSE RoundDiv(lo.m, Pow10(hi.e - lo.e - 1))),
              hi.e - 1)

Add(a, b) ==
    IF IsNaN(a) \/ IsNaN(b) THEN NaN
    ELSE IF IsInf(a) THEN (IF IsInf(b) /\ a.k # b.k THEN NaN ELSE a)
    ELSE IF IsInf(b) THEN b
    ELSE IF a.m = 0 THEN b
    ELSE IF b.m = 0 THEN a
    ELSE AddAligned(IF a.e >= b.e THEN a ELSE b, IF a.e >= b.e THEN b ELSE a)

Sub(a, b) == Add(a, Neg(b))

\* (ah * 10^4 + al) * (bh * 10^4 + bl) / 10^7, rounded
MulParts(ah, al, bh, bl) ==
    ah * bh * 10 + ((ah * bl + al * bh + ((al * bl) \div E4) + 500) \div 1000)

Mul(a, b) ==
    IF IsNaN(a) \/ IsNaN(b) THEN NaN
    ELSE IF IsInf(a) \/ IsInf(b)
         THEN (IF IsZero(a) \/ IsZero(b) THEN NaN ELSE SInf(Sign(a) * Sign(b)))
    ELSE IF a.m = 0 \/ b.m = 0 THEN Zero
    ELSE Norm(Sgn(a.m) * Sgn(b.m)
                  * MulParts(Abs(a.m) \div E4, Abs(a.m) % E4, Abs(b.m) \div E4, Abs(b.m) % E4),
              a.e + b.e + 7)

RECURSIVE LongDiv(_, _, _, _)
\* n more quotient digits of r / d
LongDiv(r, d, q, n) ==
    IF n = 0 THEN (IF r >= 5 * d THEN q + 1 ELSE q)
    ELSE LongDiv((r % d) * 10, d, q * 10 + (r \div d), n - 1)

Div(a, b) ==
    IF IsNaN(a) \/ IsNaN(b) THEN NaN
    ELSE IF IsInf(a) THEN (IF IsInf(b) THEN NaN ELSE SInf(Sign(a) * Sign(b)))
    ELSE IF IsInf(b) THEN Zero
    ELSE IF b.m = 0 THEN (IF a.m = 0 THEN NaN ELSE SInf(Sgn(a.m)))
    ELSE IF a.m = 0 THEN Zero
    ELSE Norm(Sgn(a.m) * Sgn(b.m) * LongDiv(Abs(a.m), Abs(b.m), 0, 9), a.e - b.e - 8)

\* Math.max and Math.min of two arguments
MathMax(a, b) == IF IsNaN(a) \/ IsNaN(b) THEN NaN ELSE IF Cmp(a, b) >= 0 THEN a ELSE b
MathMin(a, b) == IF IsNaN(a) \/ IsNaN(b) THEN NaN ELSE IF Cmp(a, b) <= 0 THEN a ELSE b

One == [k |-> "fin", m |-> E7, e |-> -7]
Two == [k |-> "fin", m |-> 2 * E7, e |-> -7]
Half == [k |-> "fin", m |-> 5 * E7, e |-> -8]
Quarter == [k |-> "fin", m |-> 25 * 10^6, e |-> -8]
ThreeQuarters == [k |-> "fin", m |-> 75 * 10^6, e |-> -8]

\* 2^(d/16) for d = 0..15, in units of 10^-8
TwoSixteenth ==
    << 100000000, 104427378, 109050773, 113878863, 118920712, 124185781,
       129683955, 135425555, 141421356, 147682615, 154221083, 161049033,
       168179283, 175625216, 183400809, 191520656 >>

\* 1 / (1 + d/32) for d = 0..31, rounded up, in units of 10^-8
InvC ==
    << 100000000, 96969697, 94117648, 91428572, 88888889, 86486487,
       84210527, 82051283, 80000000, 78048781, 76190477, 74418605,
       72727273, 71111112, 69565218, 68085107, 66666667, 65306123,
       64000000, 62745099, 61538462, 60377359, 59259260, 58181819,
       57142858, 56140351, 55172414, 54237289, 53333334, 52459017,
       51612904, 50793651 >>

\* log2 of the number that InvC[d + 1] is the inverse of, in units of 10^-8
LogC ==
    << 0, 4439412, 8746283, 12928301, 16992500, 20945336,
       24792750, 28540220, 32192809, 35755200, 39231741, 42626475,
       45943161, 49185308, 52356194, 55458884, 58496249, 61470983,
       64385619, 67242532, 70043971, 72792044, 75488748, 78135969,
       80735490, 83289001, 85798099, 88264303, 90689058, 93073732,
       95419629, 97727992 >>

\* (uh * 10^4 + ul) * (vh * 10^4 + vl) / 10^8, rounded
UnitParts(uh, ul, vh, vl) ==
    uh * vh + ((uh * vl + ul * vh + ((ul * vl) \div E4) + (E4 \div 2)) \div E4)

\* the product of u and v, both in [1, 2) in units of 10^-8
MulUnit(u, v) == UnitParts(u \div E4, u % E4, v \div E4, v % E4)

RECURSIVE ToUnit(_, _)
\* u in [1, 10) in units of 10^-8 as <<f, k>> with u = f * 2^k and f in [1, 2)
ToUnit(u, k) == IF u >= 2 * E8 THEN ToUnit((u + 1) \div 2, k + 1) ELSE <<u, k>>

\* ln(1 + w) for 0 <= w <= 1/32 from w, w^2 and w^3, all in units of 10^-8
LnTerms(w, w2, w3) ==
    w - (w2 \div 2) + (w3 \div 3) - (MulUnit(w2, w2) \div 4) + (MulUnit(w2, w3) \div 5)

LnPowers(w, w2) == LnTerms(w, w2, MulUnit(w, w2))

\* p - 1 for a product p that is 1 at least, up to its rounding
Excess(p) == IF p < E8 THEN 0 ELSE p - E8

\* log2(f) for f in [1 + d/32, 1 + (d + 1)/32), in units of 10^-8:
\* log2(c) + ln(f / c) * log2(e) with c = 1 + d/32
Log2Unit(d, w) == LogC[d + 1] + MulUnit(LnPowers(w, MulUnit(w, w)), 144269504)

Log2Near(f, d) == Log2Unit(d, Excess(MulUnit(f, InvC[d + 1])))

\* log2(f) for f in [1, 2), in units of 10^-8
Log2Frac(f) == Log2Near(f, (f - E8) \div 3125000)

Log2Of10 == [k |-> "fin", m |-> 33219281, e |-> -7]

\* log2 of u * 10^e, u = <<f, k>> standing for f * 2^k
Log2Parts(e, u) ==
    Add(Mul(Int2Num(e), Log2Of10), Norm(u[2] * E8 + Log2Frac(u[1]), -8))

\* log2 of a finite x > 0
Log2(x) == Log2Parts(x.e + 7, ToUnit(x.m * 10, 0))

\* |v| / p rounded down, with the sign of v: the floor of v / p
FloorDiv(v, p) ==
    IF v >= 0 THEN v \div p ELSE IF (-v) % p = 0 THEN -((-v) \div p) ELSE -((-v) \div p) - 1

\* the integer floor of a finite t with |t| < 10^9
Floor(t) ==
    IF t.m = 0 THEN 0
    ELSE IF t.e >= 0 THEN t.m * Pow10(t.e)
    ELSE IF -t.e > 9 THEN (IF t.m < 0 THEN -1 ELSE 0)
    ELSE FloorDiv(t.m, Pow10(-t.e))

\* e^x for 0 <= x <= ln(2)/16 from x and x^2, all in units of 10^-8
ExpTerms(x, x2) ==
    E8 + x + (x2 \div 2) + (MulUnit(x, x2) \div 6) + (MulUnit(x2, x2) \div 24)

ExpSmall(x) == ExpTerms(x, MulUnit(x, x))

\* 2^(fi / 10^9) for 0 <= fi < 10^9, in units of 10^-8:
\* 2^(d/16) * e^(r * ln(2)) with fi / 10^9 = d/16 + r
ExpUnit(fi) ==
    MulUnit(TwoSixteenth[(fi \div 62500000) + 1],
            ExpSmall(MulUnit(fi % 62500000, 6931472)))

\* at most 30 of n > 0 doublings
Doublings(n) == IF n > 30 THEN 30 ELSE n

RECURSIVE Scale2(_, _)
\* r * 2^n
Scale2(r, n) ==
    IF n = 0 \/ ~IsFinite(r) \/ IsZero(r) THEN r
    ELSE IF n > 0 THEN Scale2(Mul(r, Int2Num(2^Doublings(n))), n - Doublings(n))
    ELSE Scale2(Div(r, Int2Num(2^Doublings(-n))), n + Doublings(-n))

\* a fraction fr in [0, 1) in units of 10^-9
FracUnits(fr) ==
    IF fr.m = 0 THEN 0
    ELSE IF fr.e + 9 >= 0 THEN fr.m * Pow10(fr.e + 9)
    ELSE IF -(fr.e + 9) > 9 THEN 0
    ELSE fr.m \div Pow10(-(fr.e + 9))

\* 2^t for a finite t of floor n
Exp2Parts(t, n) == Scale2(Norm(ExpUnit(FracUnits(Sub(t, Int2Num(n)))), -8), n)

\* 2^t for a finite t
Exp2(t) ==
    IF t.m # 0 /\ t.e + 7 > 3 THEN (IF t.m > 0 THEN PInf ELSE Zero)
    ELSE Exp2Parts(t, Floor(t))

RECURSIVE ISqrtFrom(_, _)
RECURSIVE ISqrtStep(_, _, _)
\* Newton's iteration for the integer square root of n, from a guess g above it
ISqrtFrom(n, g) == ISqrtStep(n, g, (g + (n \div g)) \div 2)

ISqrtStep(n, g, h) == IF h >= g THEN g ELSE ISqrtFrom(n, h)

\* the square root of m2 * 10^e2, e2 even, from the integer root s0 of m2
\* and d = (m2 - s0^2) / (2 s0) in units of 10^-4: s0 + d - d^2 / (2 s0)
SqrtWith(e2, s0, d) ==
    Norm(s0 * E4 + d - ((d * d) \div (2 * s0 * E4)), (e2 \div 2) - 4)

SqrtFrom(m2, e2, s0) == SqrtWith(e2, s0, ((m2 - s0 * s0) * E4) \div (2 * s0))

SqrtEven(m2, e2) == SqrtFrom(m2, e2, ISqrtFrom(m2, IF m2 < E8 THEN E4 ELSE 31623))

\* the square root of a finite x > 0
SqrtPos(x) ==
    SqrtEven(IF x.e % 2 = 1 THEN x.m * 10 ELSE x.m, IF x.e % 2 = 1 THEN x.e - 1 ELSE x.e)

\* whether a finite y is an integer, and whether it is an odd one
IsInteger(y) == y.m = 0 \/ y.e >= 0 \/ (-y.e <= 8 /\ y.m % Pow10(-y.e) = 0)
IsOddInteger(y) == IsInteger(y) /\ y.m # 0 /\ y.e <= 0 /\ (Abs(y.m) \div Pow10(-y.e)) % 2 = 1

RECURSIVE MulTimes(_, _, _)
MulTimes(r, x, n) == IF n = 0 THEN r ELSE MulTimes(Mul(r, x), x, n - 1)

RECURSIVE PowPos(_, _)
\* x^y for finite x > 0 and finite y # 0: exact roots for y = 1/2, 1/4 and
\* 3/4, repeated products for y = 1..8
PowPos(x, y) ==
    IF y.m > 0 /\ -y.e <= 7 /\ y.m % Pow10(-y.e) = 0 /\ y.m \div Pow10(-y.e) <= 8
    THEN MulTimes(x, x, (y.m \div Pow10(-y.e)) - 1)
    ELSE IF y = Half THEN SqrtPos(x)
    ELSE IF y = Quarter THEN PowPos(PowPos(x, Half), Half)
    ELSE IF y = ThreeQuarters THEN Mul(PowPos(x, Half), PowPos(x, Quarter))
    ELSE Exp2(Mul(y, Log2(x)))

Magnitude(x) == IF Sign(x) < 0 THEN Neg(x) ELSE x
Signed(negative, v) == IF negative THEN Neg(v) ELSE v

\* x^y for an infinite y, c comparing |x| with 1
PowInfinite(c, y) ==
    IF c = 0 THEN NaN ELSE IF (c > 0) = (y.k = "pinf") THEN PInf ELSE Zero

\* whether x^y is one of the cases the standard lists one by one
PowIsSpecial(x, y) ==
    ~IsFinite(x) \/ ~IsFinite(y) \/ x.m = 0 \/ y.m = 0 \/ (x.m < 0 /\ ~IsInteger(y))

PowSpecial(x, y) ==
    IF IsNaN(y) THEN NaN
    ELSE IF IsZero(y) THEN One
    ELSE IF IsNaN(x) THEN NaN
    ELSE IF IsInf(y) THEN PowInfinite(Cmp(Magnitude(x), One), y)
    ELSE IF x.k = "pinf" THEN (IF Sign(y) > 0 THEN PInf ELSE Zero)
    ELSE IF x.k = "ninf" THEN
        (IF Sign(y) > 0 THEN (IF IsOddInteger(y) THEN NInf ELSE PInf) ELSE Zero)
    ELSE IF x.m = 0 THEN (IF Sign(y) > 0 THEN Zero ELSE PInf)
    ELSE NaN

\* Math.pow
MathPow(x, y) ==
    IF PowIsSpecial(x, y) THEN PowSpecial(x, y)
    ELSE Signed(x.m < 0 /\ IsOddInteger(y), PowPos(Magnitude(x), y))

\* Math.sqrt
MathSqrt(x) ==
    IF IsNaN(x) \/ (Sign(x) < 0 /\ ~IsZero(x)) THEN NaN
    ELSE IF IsZero(x) \/ x.k = "pinf" THEN x
    ELSE SqrtPos(x)

\* Math.log10
MathLog10(x) ==
    IF IsNaN(x) THEN NaN
    ELSE IF IsZero(x) THEN NInf
    ELSE IF Sign(x) < 0 THEN NaN
    ELSE IF x.k = "pinf" THEN PInf
    ELSE Mul(Log2(x), [k |-> "fin", m |-> 30103000, e |-> -8])

\* Math.exp
MathExp(x) ==
    IF IsNaN(x) THEN NaN
    ELSE IF x.k = "pinf" THEN PInf
    ELSE IF x.k = "ninf" THEN Zero
    ELSE Exp2(Mul(x, [k |-> "fin", m |-> 14426950, e |-> -7]))

\* +x.toFixed(d): x rounded to d decimals, halves away from zero; NaN and
\* the infinities print as "NaN" and "Infinity" and read back unchanged
ToFixed(x, d) ==
    IF ~IsFinite(x) \/ x.m = 0 \/ x.e >= -d THEN x
    ELSE IF -d - x.e > 8 THEN Zero
    ELSE Norm(RoundDiv(x.m, Pow10(-d - x.e)), -d)

\* JSON.stringify of a number: the non-finite ones print as null
JsonNumber(x) == IF IsFinite(x) THEN x ELSE [k |-> "null", m |-> 0, e |-> 0]

----------------------------------------------------------------------------
(* netlify/functions/pump.js: the helper functions *)

Null == [k |-> "null", m |-> 0, e |-> 0]
Undefined == [k |-> "undefined", m |-> 0, e |-> 0]
AString == [k |-> "string", m |-> 0, e |-> 0]

\* typeof v
TypeOf(v) == IF IsNum(v) THEN "number" ELSE IF v.k = "null" THEN "object" ELSE v.k

MathPI == Dec(31415927, -7)
Hundred == Dec(100, 0)

\* x || y for numbers: y when x is 0 or NaN
OrElse(x, y) == IF IsNaN(x) \/ IsZero(x) THEN y ELSE x

\* Math.max(0, Math.min(100, x))
Clamp0to100(x) == MathMax(Zero, MathMin(Hundred, x))

calculateViscousCorrection(Re) ==
    LET ch_a == Dec(1004, -3)
        ch_b == Dec(1391, -3)
        ch_c == Dec(394, -3)
        ch_d == Dec(233, -3)
        ce_a == Dec(1016, -3)
        ce_b == Dec(2848, -3)
        ce_c == Dec(369, -3)
        ce_d == Dec(204, -3)
        Ch == Sub(ch_a, Mul(ch_b, MathExp(Mul(Neg(ch_c), MathPow(Re, ch_d)))))
        Ce == Sub(ce_a, Mul(ce_b, MathExp(Mul(Neg(ce_c), MathPow(Re, ce_d)))))
        Cq == One
    IN  [CQ |-> Cq, CH |-> Ch, CE |-> Ce]

WarnNsLow == [text |-> "Ns is too low!", critical |-> TRUE]
WarnNsHigh == [text |-> "Ns is too high - cannot build this pump", critical |-> TRUE]
WarnTipSpeed == [text |-> "Tip speed too high for dirty service", critical |-> TRUE]
WarnNpsha == [text |-> "You have more NPSHA than needed", critical |-> FALSE]
WarnNssHigh == [text |-> "Suction specific speed (Nss) is too high", critical |-> TRUE]
WarnNssLow == [text |-> "Suction specific speed (Nss) is very low", critical |-> FALSE]

\* the warnings with the tip speed test chained to the Ns tests by `else`
generateWarningsChained(Ns, U2, NPSHA, Nss) ==
    LET w1 == IF Lt(Ns, Dec(20, 0)) THEN <<WarnNsLow>>
              ELSE IF Gt(Ns, Dec(250, 0)) THEN <<WarnNsHigh>>
              ELSE IF Gt(U2, Dec(55, 0)) THEN <<WarnTipSpeed>>
              ELSE << >>
        w3 == IF Gt(NPSHA, Dec(10, 0)) THEN <<WarnNpsha>> ELSE << >>
        w4 == IF Gt(Nss, Dec(213, 0)) THEN <<WarnNssHigh>>
              ELSE IF Lt(Nss, Dec(50, 0)) THEN <<WarnNssLow>>
              ELSE << >>
    IN  w1 \o w3 \o w4

\* the warnings with the low-Ns test at 40
generateWarningsLowAt40(Ns, U2, NPSHA, Nss) ==
    LET w1 == IF Lt(Ns, Dec(40, 0)) THEN <<WarnNsLow>>
              ELSE IF Gt(Ns, Dec(250, 0)) THEN <<WarnNsHigh>>
              ELSE << >>
        w2 == IF Gt(U2, Dec(55, 0)) THEN <<WarnTipSpeed>> ELSE << >>
        w3 == IF Gt(NPSHA, Dec(10, 0)) THEN <<WarnNpsha>> ELSE << >>
        w4 == IF Gt(Nss, Dec(213, 0)) THEN <<WarnNssHigh>>
              ELSE IF Lt(Nss, Dec(50, 0)) THEN <<WarnNssLow>>
              ELSE << >>
    IN  w1 \o w2 \o w3 \o w4

generateWarnings(Ns, U2, NPSHA, Nss) ==
    LET w1 == IF Lt(Ns, Dec(20, 0)) THEN <<WarnNsLow>>
              ELSE IF Gt(Ns, Dec(250, 0)) THEN <<WarnNsHigh>>
              ELSE << >>
        w2 == IF Gt(U2, Dec(55, 0)) THEN <<WarnTipSpeed>> ELSE << >>
        w3 == IF Gt(NPSHA, Dec(10, 0)) THEN <<WarnNpsha>> ELSE << >>
        w4 == IF Gt(Nss, Dec(213, 0)) THEN <<WarnNssHigh>>
              ELSE IF Lt(Nss, Dec(50, 0)) THEN <<WarnNssLow>>
              ELSE << >>
    IN  w1 \o w2 \o w3 \o w4

curveCoefficients ==
  [
    head |-> [
        Ns1 |-> [a |-> Dec(1208, -1), b |-> Dec(-21384782, -8), c |-> Dec(10905096, -9), d |-> Dec(-21595602, -11), e |-> Dec(13648307, -13), f |-> Dec(-28993229, -16)],
        Ns2 |-> [a |-> Dec(142, 0), b |-> Dec(-223337, -6), c |-> Dec(-55263614, -10), d |-> Dec(18385812, -11), e |-> Dec(-23572357, -13), f |-> Dec(87462759, -16)],
        Ns3 |-> [a |-> Dec(160, 0), b |-> Dec(-40244256, -8), c |-> Dec(-57075647, -10), d |-> Dec(14007848, -11), e |-> Dec(-15704207, -13), f |-> Dec(54283494, -16)],
        Ns4 |-> [a |-> Dec(175, 0), b |-> Dec(-56557259, -8), c |-> Dec(-68800616, -10), d |-> Dec(19610839, -11), e |-> Dec(-23296197, -13), f |-> Dec(87211455, -16)],
        Ns5 |-> [a |-> Dec(185, 0), b |-> Dec(-14234848, -7), c |-> Dec(15568182, -9), d |-> Dec(15742424, -11), e |-> Dec(-46181818, -13), f |-> Dec(20606061, -15)],
        Ns6 |-> [a |-> Dec(225, 0), b |-> Dec(-12501499, -7), c |-> Dec(-68654179, -9), d |-> Dec(24996503, -10), e |-> Dec(-27729337, -12), f |-> Dec(95984016, -15)],
        Ns7 |-> [a |-> Dec(380, 0), b |-> Dec(-43295704, -7), c |-> Dec(-11964691, -8), d |-> Dec(44487801, -10), e |-> Dec(-45967011, -12), f |-> Dec(14973471, -14)] ],
    efficiency |-> [
        Ns1 |-> [a |-> Dec(0, 0), b |-> Dec(24445788, -7), c |-> Dec(-14159341, -9), d |-> Dec(-12353846, -11), e |-> Dec(1869011, -12), f |-> Dec(-66227106, -16)],
        Ns2 |-> [a |-> Dec(0, 0), b |-> Dec(22298868, -7), c |-> Dec(-10668343, -9), d |-> Dec(-96486402, -12), e |-> Dec(11941303, -13), f |-> Dec(-39231879, -16)],
        Ns3 |-> [a |-> Dec(0, 0), b |-> Dec(25249317, -7), c |-> Dec(-32144311, -9), d |-> Dec(39017405, -11), e |-> Dec(-31181796, -13), f |-> Dec(90593851, -16)],
        Ns4 |-> [a |-> Dec(0, 0), b |-> Dec(22583217, -7), c |-> Dec(-23349029, -9), d |-> Dec(24363947, -11), e |-> Dec(-18396892, -13), f |-> Dec(47987568, -16)],
        Ns5 |-> [a |-> Dec(0, 0), b |-> Dec(24710846, -7), c |-> Dec(-32865937, -9), d |-> Dec(46168625, -11), e |-> Dec(-40147, -10), f |-> Dec(12133467, -15)],
        Ns6 |-> [a |-> Dec(0, 0), b |-> Dec(17089419, -7), c |-> Dec(-89007132, -10), d |-> Dec(64419969, -12), e |-> Dec(-41622822, -14), f |-> Dec(-46842047, -17)],
        Ns7 |-> [a |-> Dec(0, 0), b |-> Dec(14879138, -7), c |-> Dec(-17261461, -10), d |-> Dec(-10420124, -11), e |-> Dec(14956333, -13), f |-> Dec(-76891997, -16)] ],
    npsh |-> [
        Ns1 |-> [a |-> Dec(48, 0), b |-> Dec(23681818, -8), c |-> Dec(-14001515, -9), d |-> Dec(39790909, -11), e |-> Dec(-39684848, -13), f |-> Dec(16727273, -15)],
        Ns2 |-> [a |-> Dec(72, 0), b |-> Dec(61821512, -9), c |-> Dec(-15774015, -9), d |-> Dec(34247242, -11), e |-> Dec(-29996848, -13), f |-> Dec(13705406, -15)],
        Ns3 |-> [a |-> Dec(98, 0), b |-> Dec(-32168731, -8), c |-> Dec(-34086057, -9), d |-> Dec(83099627, -11), e |-> Dec(-71443383, -13), f |-> Dec(25846687, -15)],
        Ns4 |-> [a |-> Dec(120, 0), b |-> Dec(-83951382, -8), c |-> Dec(-11862737, -9), d |-> Dec(35402331, -11), e |-> Dec(-32840759, -13), f |-> Dec(15696304, -15)],
        Ns5 |-> [a |-> Dec(186, 0), b |-> Dec(-72372627, -8), c |-> Dec(-50911699, -9), d |-> Dec(11401943, -10), e |-> Dec(-11171744, -12), f |-> Dec(47246975, -15)],
        Ns6 |-> [a |-> Dec(403, 0), b |-> Dec(-34442574, -7), c |-> Dec(-63122994, -9), d |-> Dec(19938438, -10), e |-> Dec(-24935358, -12), f |-> Dec(11723477, -14)],
        Ns7 |-> [a |-> Dec(1000, 0), b |-> Dec(-69291126, -7), c |-> Dec(-19079618, -8), d |-> Dec(35209596, -10), e |-> Dec(-36734776, -12), f |-> Dec(18533911, -14)] ] ]

lagrangianInterpolation(x, coefficients) ==
    Add(Add(Add(Add(Add(coefficients.a,
                        Mul(coefficients.b, x)),
                    Mul(coefficients.c, MathPow(x, Dec(2, 0)))),
                Mul(coefficients.d, MathPow(x, Dec(3, 0)))),
            Mul(coefficients.e, MathPow(x, Dec(4, 0)))),
        Mul(coefficients.f, MathPow(x, Dec(5, 0))))

flowPercentages == <<Dec(0, 0), Dec(25, 0), Dec(50, 0), Dec(75, 0), Dec(100, 0), Dec(130, 0)>>

\* lagrangianInterpolation(flowPercentages[i], curveCoefficients[curve][band]),
\* which depends on nothing else, tabulated once for every curve, band and point
interpolated ==
    [curve \in DOMAIN curveCoefficients |->
        [band \in DOMAIN curveCoefficients[curve] |->
            [i \in 1..Len(flowPercentages) |->
                lagrangianInterpolation(flowPercentages[i], curveCoefficients[curve][band])]]]

HydPowerCoeff == Dec(36763, -2)

flowPointsOf(Q) ==
    [i \in 1..Len(flowPercentages) |-> Div(Mul(flowPercentages[i], Q), Hundred)]

\* the head points scaled by TDHm and not by TDHm / 100
headPointsUnscaled(headCurve, TDHm) ==
    [i \in 1..Len(headCurve) |-> Mul(headCurve[i], TDHm)]

headPointsOf(headCurve, TDHm) ==
    [i \in 1..Len(headCurve) |-> Mul(headCurve[i], Div(TDHm, Hundred))]

efficiencyPointsOf(efficiencyCurve, Eff) ==
    [i \in 1..Len(efficiencyCurve) |-> Clamp0to100(Mul(efficiencyCurve[i], Eff))]

npshPointsOf(npshCurve, NPSHA) ==
    [i \in 1..Len(npshCurve) |-> MathMax(Zero, Mul(npshCurve[i], Div(NPSHA, Hundred)))]

\* the shaft power without the substitution of 0.01
shaftPowerNoFloor(flow, head, efficiency, SG) ==
    Div(Mul(Mul(flow, head), SG), Mul(HydPowerCoeff, Div(efficiency, Hundred)))

\* (flow * head * SG) / (367.63 * (efficiency / 100 || 0.01))
shaftPower(flow, head, efficiency, SG) ==
    Div(Mul(Mul(flow, head), SG),
        Mul(HydPowerCoeff, OrElse(Div(efficiency, Hundred), Dec(1, -2))))

\* the shaft power with the zero-flow point computed from its own values
powerPointOwnValues(i, flowPoints, headPoints, efficiencyPoints, SG) ==
    shaftPower(flowPoints[i], headPoints[i], efficiencyPoints[i], SG)

\* the shaft power of curve point i (1-based; the code's index is i - 1)
powerPoint(i, flowPoints, headPoints, efficiencyPoints, SG) ==
    IF Eq(flowPoints[i], Zero)
    THEN Mul(Dec(9, -1), shaftPower(flowPoints[2], headPoints[2], efficiencyPoints[2], SG))
    ELSE shaftPower(flowPoints[i], headPoints[i], efficiencyPoints[i], SG)

\* the returned object, powerPoints computed from the other sequences
performanceData(flowPoints, headPoints, efficiencyPoints, npshPoints, SG) ==
    [flowPoints |-> flowPoints, headPoints |-> headPoints,
     efficiencyPoints |-> efficiencyPoints, npshPoints |-> npshPoints,
     powerPoints |-> [i \in 1..Len(flowPoints) |->
                         powerPoint(i, flowPoints, headPoints, efficiencyPoints, SG)],
     flowPercentages |-> flowPercentages]

\* generatePerformanceData given the values of the polynomials
performanceDataFrom(curves, Q, TDHm, Eff, NPSHA, Nstatus, SG) ==
    performanceData(flowPointsOf(Q),
                    headPointsOf(curves.head[Nstatus], TDHm),
                    efficiencyPointsOf(curves.efficiency[Nstatus], Eff),
                    npshPointsOf(curves.npsh[Nstatus], NPSHA),
                    SG)

generatePerformanceData(Q, TDHm, Eff, NPSHA, Nstatus, SG) ==
    performanceDataFrom(interpolated, Q, TDHm, Eff, NPSHA, Nstatus, SG)

\* the degree-7 polynomial in Ns of the small low-Ns pump
newEfficiencyPoly(Ns) ==
    Sub(Add(Add(Sub(Add(Sub(Add(Dec(-884553, -8),
                                Mul(Dec(79485, -6), Ns)),
                            Mul(Dec(40913, -7), MathPow(Ns, Dec(2, 0)))),
                        Mul(Dec(108499, -9), MathPow(Ns, Dec(3, 0)))),
                    Mul(Dec(140755, -11), MathPow(Ns, Dec(4, 0)))),
                Mul(Dec(54971, -13), MathPow(Ns, Dec(5, 0)))),
            Mul(Dec(407879, -16), MathPow(Ns, Dec(6, 0)))),
        Mul(Dec(266217, -18), MathPow(Ns, Dec(7, 0))))

\* which arm of the if / else if / else chain assigns newEfficiencyPercent
newEfficiencyBranch(Ns, Q) ==
    IF Gt(Q, Dec(20, 0)) /\ Lt(Q, Dec(61, 0)) /\ Lt(Ns, Dec(20, 0)) THEN "first"
    ELSE IF Lt(Ns, Dec(18, 0)) /\ Le(Q, Dec(20, 0)) THEN "second"
    ELSE "fallback"

\* the efficiency in percent before the clamp
newEfficiencyPercent(Ns, Q, originalEff) ==
    IF Gt(Q, Dec(20, 0)) /\ Lt(Q, Dec(61, 0)) /\ Lt(Ns, Dec(20, 0))
    THEN Sub(Mul(originalEff, Hundred), Dec(989, -2))
    ELSE IF Lt(Ns, Dec(18, 0)) /\ Le(Q, Dec(20, 0))
    THEN Mul(newEfficiencyPoly(Ns), Hundred)
    ELSE Sub(Mul(originalEff, Hundred), Dec(989, -2))

\* the returned object, given the clamped efficiency in percent
newPumpPerformanceOf(Ns, Q, TDHm, ImpDia, NPSHA, N, SG, clamped) ==
    [flow |-> ToFixed(Q, 2), head |-> ToFixed(TDHm, 2), ns |-> ToFixed(Ns, 2),
     impdia |-> ToFixed(ImpDia, 2), npsh |-> ToFixed(NPSHA, 2), speed |-> ToFixed(N, 0),
     efficiency |-> ToFixed(clamped, 2),
     hydpower |-> ToFixed(Div(Mul(Mul(Q, TDHm), SG),
                              Mul(HydPowerCoeff, Div(clamped, Hundred))), 2)]

\* the estimate without the clamp of the efficiency
calculateNewPumpPerformanceNoClamp(Ns, Q, TDHm, ImpDia, NPSHA, N, SG, originalEff) ==
    newPumpPerformanceOf(Ns, Q, TDHm, ImpDia, NPSHA, N, SG,
                         newEfficiencyPercent(Ns, Q, originalEff))

calculateNewPumpPerformance(Ns, Q, TDHm, ImpDia, NPSHA, N, SG, originalEff) ==
    newPumpPerformanceOf(Ns, Q, TDHm, ImpDia, NPSHA, N, SG,
                         Clamp0to100(newEfficiencyPercent(Ns, Q, originalEff)))

----------------------------------------------------------------------------
(* netlify/functions/pump.js: exports.handler *)

\* the test without its Number.isFinite part
InvalidNumberNoFinite(v) == TypeOf(v) # "number" \/ IsNaN(v)

\* the validation loop's test of one entry of `numbers`
InvalidNumber(v) == TypeOf(v) # "number" \/ IsNaN(v) \/ ~IsFinite(v)

\* const numbers = { N, Q, TDHm, NPSHA, SucType, SG, NumImpellers, Viscosity }
Numbers(payload) ==
    << [key |-> "N", v |-> payload.n],
       [key |-> "Q", v |-> payload.q],
       [key |-> "TDHm", v |-> payload.tdhm],
       [key |-> "NPSHA", v |-> payload.npsha],
       [key |-> "SucType", v |-> payload.suctype],
       [key |-> "SG", v |-> payload.sg],
       [key |-> "NumImpellers", v |-> payload.num_impellers],
       [key |-> "Viscosity", v |-> payload.viscosity] >>

RECURSIVE FirstInvalidFrom(_, _)
\* the index of the first entry at or after i that fails the test, or 0
FirstInvalidFrom(numbers, i) ==
    IF i > Len(numbers) THEN 0
    ELSE IF InvalidNumber(numbers[i].v) THEN i
    ELSE FirstInvalidFrom(numbers, i + 1)

FirstInvalid(numbers) == FirstInvalidFrom(numbers, 1)

SpecificSpeed(N, Q, HeadStage) ==
    Div(Mul(N, MathPow(Div(Q, Dec(3600, 0)), Dec(5, -1))), MathPow(HeadStage, Dec(75, -2)))

SuctionSpecificSpeed(N, Q, SucType, NPSHA) ==
    Div(Mul(N, MathPow(Div(Div(Q, SucType), Dec(3600, 0)), Dec(5, -1))),
        MathPow(NPSHA, Dec(75, -2)))

\* the two formulas with the test of the other one
FlowCoefficientSwapped(Uns) ==
    IF Lt(Uns, One) THEN Div(Dec(4, -1), MathPow(Uns, Dec(5, -1)))
    ELSE Div(Dec(4, -1), MathPow(Uns, Dec(25, -2)))

FlowCoefficient(Uns) ==
    IF Gt(Uns, One) THEN Div(Dec(4, -1), MathPow(Uns, Dec(5, -1)))
    ELSE Div(Dec(4, -1), MathPow(Uns, Dec(25, -2)))

\* the efficiency without the penalty of the stages
BaselineEfficiencyNoPenalty(Qus, N, Nus, NumImpellers) ==
    Sub(Sub(Dec(94, -2),
            Mul(Dec(8955, -5), MathPow(Div(Qus, N), Dec(-2133, -4)))),
        Mul(Dec(29, -2), MathPow(MathLog10(Div(Dec(2286, 0), Nus)), Dec(2, 0))))

BaselineEfficiency(Qus, N, Nus, NumImpellers) ==
    LET Eff == Sub(Sub(Dec(94, -2),
                       Mul(Dec(8955, -5), MathPow(Div(Qus, N), Dec(-2133, -4)))),
                   Mul(Dec(29, -2), MathPow(MathLog10(Div(Dec(2286, 0), Nus)), Dec(2, 0))))
    IN  Sub(Eff, Mul(Dec(5, -3), Sub(NumImpellers, One)))

ReynoldsNumber(Q, SucType, HeadStage, Viscosity) ==
    Div(Mul(MathPow(Div(Div(Q, SucType), Dec(3600, 0)), Dec(5, -1)),
            MathPow(Mul(Dec(981, -2), HeadStage), Dec(25, -2))),
        Mul(Viscosity, Dec(1, -6)))

\* the chain with >= for >
NstatusOfInclusive(Ns) ==
    IF Ge(Ns, Dec(175, 0)) THEN "Ns7"
    ELSE IF Ge(Ns, Dec(100, 0)) THEN "Ns6"
    ELSE IF Ge(Ns, Dec(80, 0)) THEN "Ns5"
    ELSE IF Ge(Ns, Dec(60, 0)) THEN "Ns4"
    ELSE IF Ge(Ns, Dec(40, 0)) THEN "Ns3"
    ELSE IF Ge(Ns, Dec(20, 0)) THEN "Ns2"
    ELSE "Ns1"

\* the chain with the tests for 100 and 175 in the wrong order
NstatusOfReordered(Ns) ==
    IF Gt(Ns, Dec(100, 0)) THEN "Ns6"
    ELSE IF Gt(Ns, Dec(175, 0)) THEN "Ns7"
    ELSE IF Gt(Ns, Dec(80, 0)) THEN "Ns5"
    ELSE IF Gt(Ns, Dec(60, 0)) THEN "Ns4"
    ELSE IF Gt(Ns, Dec(40, 0)) THEN "Ns3"
    ELSE IF Gt(Ns, Dec(20, 0)) THEN "Ns2"
    ELSE "Ns1"

\* the Ns status chain
NstatusOf(Ns) ==
    IF Gt(Ns, Dec(175, 0)) THEN "Ns7"
    ELSE IF Gt(Ns, Dec(100, 0)) THEN "Ns6"
    ELSE IF Gt(Ns, Dec(80, 0)) THEN "Ns5"
    ELSE IF Gt(Ns, Dec(60, 0)) THEN "Ns4"
    ELSE IF Gt(Ns, Dec(40, 0)) THEN "Ns3"
    ELSE IF Gt(Ns, Dec(20, 0)) THEN "Ns2"
    ELSE "Ns1"

StatusTextOf ==
    [Ns7 |-> "Very High Ns", Ns6 |-> "High Ns", Ns5 |-> "Medium-High Ns",
     Ns4 |-> "Medium Ns", Ns3 |-> "Medium-Low Ns", Ns2 |-> "Low Ns",
     Ns1 |-> "Very Low Ns"]

\* the condition with Q <= 61 for Q < 61
NewPumpTriggerUpTo61(Q, Ns) ==
    \/ Gt(Q, Dec(20, 0)) /\ Le(Q, Dec(61, 0)) /\ Lt(Ns, Dec(20, 0))
    \/ Lt(Ns, Dec(18, 0)) /\ Le(Q, Dec(20, 0))

\* the condition with Ns < 20 for Ns < 18 in its second clause
NewPumpTriggerBelow20(Q, Ns) ==
    \/ Gt(Q, Dec(20, 0)) /\ Lt(Q, Dec(61, 0)) /\ Lt(Ns, Dec(20, 0))
    \/ Lt(Ns, Dec(20, 0)) /\ Le(Q, Dec(20, 0))

\* the condition without the Ns test of its first clause
NewPumpTriggerAnyNs(Q, Ns) ==
    \/ Gt(Q, Dec(20, 0)) /\ Lt(Q, Dec(61, 0))
    \/ Lt(Ns, Dec(18, 0)) /\ Le(Q, Dec(20, 0))

\* the condition under which newPumpPerformance is computed
NewPumpTrigger(Q, Ns) ==
    \/ Gt(Q, Dec(20, 0)) /\ Lt(Q, Dec(61, 0)) /\ Lt(Ns, Dec(20, 0))
    \/ Lt(Ns, Dec(18, 0)) /\ Le(Q, Dec(20, 0))

\* the destructured payload
Destructured(payload) ==
    [kind |-> "computed",
     N |-> payload.n, Q |-> payload.q, TDHm |-> payload.tdhm, NPSHA |-> payload.npsha,
     SucType |-> payload.suctype, SG |-> payload.sg, NumImpellers |-> payload.num_impellers,
     Viscosity |-> payload.viscosity]

\* the statements of the try block after the validation loop.  No statement
\* reassigns a local, so they are taken in the order of what they read: each
\* group adds to the locals l what reads only the groups before it.
\* HeadStage, AngVel and Qus
Locals1(l) ==
    l @@ [HeadStage |-> Div(l.TDHm, l.NumImpellers),
          AngVel |-> Mul(Div(MathPI, Dec(30, 0)), l.N),
          Qus |-> Mul(l.Q, Dec(4402867, -6))]

\* Ns, Nss and Re
Locals2(l) ==
    l @@ [Ns |-> SpecificSpeed(l.N, l.Q, l.HeadStage),
          Nss |-> SuctionSpecificSpeed(l.N, l.Q, l.SucType, l.NPSHA),
          Re |-> ReynoldsNumber(l.Q, l.SucType, l.HeadStage, l.Viscosity)]

\* Uns, UNss, Nus, viscous and Nstatus
Locals3(l) ==
    l @@ [Uns |-> Div(l.Ns, Dec(52919, -3)),
          UNss |-> Div(l.Nss, Dec(52919, -3)),
          Nus |-> Mul(l.Ns, Dec(5166, -2)),
          viscous |-> calculateViscousCorrection(l.Re),
          Nstatus |-> NstatusOf(l.Ns)]

\* Phi, Eff and statusText, with the efficiency derated by the viscous factor
Locals4Derated(l) ==
    l @@ [Phi |-> FlowCoefficient(l.Uns),
          Eff |-> Mul(BaselineEfficiency(l.Qus, l.N, l.Nus, l.NumImpellers), l.viscous.CE),
          statusText |-> StatusTextOf[l.Nstatus]]

\* Phi, Eff and statusText
Locals4(l) ==
    l @@ [Phi |-> FlowCoefficient(l.Uns),
          Eff |-> BaselineEfficiency(l.Qus, l.N, l.Nus, l.NumImpellers),
          statusText |-> StatusTextOf[l.Nstatus]]

\* r2, kW and performanceData
Locals5(l) ==
    l @@ [r2 |-> Mul(Div(One, l.AngVel),
                     MathSqrt(Div(Mul(Dec(981, -2), l.HeadStage), l.Phi))),
          kW |-> Div(Mul(Mul(l.Q, l.TDHm), l.SG), Mul(HydPowerCoeff, l.Eff)),
          performanceData |->
              generatePerformanceData(l.Q, l.TDHm, l.Eff, l.NPSHA, l.Nstatus, l.SG)]

\* ImpDia
Locals6(l) == l @@ [ImpDia |-> Mul(Mul(l.r2, Two), Dec(1000, 0))]

\* U2
Locals7(l) == l @@ [U2 |-> Mul(l.AngVel, Div(Div(l.ImpDia, Two), Dec(1000, 0)))]

\* warnings and newPumpPerformance
Locals8(l) ==
    l @@ [warnings |-> generateWarnings(l.Ns, l.U2, l.NPSHA, l.Nss),
          newPumpPerformance |->
              IF NewPumpTrigger(l.Q, l.Ns)
              THEN [kind |-> "estimate",
                    v |-> calculateNewPumpPerformance(l.Ns, l.Q, l.TDHm, l.ImpDia, l.NPSHA,
                                                      l.N, l.SG, l.Eff)]
              ELSE [kind |-> "null"]]

\* the locals of the try block once the validation loop has passed
PumpLocals(payload) ==
    Locals8(Locals7(Locals6(Locals5(Locals4(Locals3(Locals2(Locals1(
        Destructured(payload)))))))))

RangeOf(seq) == {seq[i] : i \in DOMAIN seq}

JsonNumbers(seq) == [i \in 1..Len(seq) |-> JsonNumber(seq[i])]

\* JSON.stringify(result): the result object as the caller reads it
ResultBody(l) ==
    [kind |-> "result",
     efficiency |-> JsonNumber(ToFixed(Mul(l.Eff, Hundred), 2)),
     uns |-> JsonNumber(ToFixed(l.Uns, 4)),
     ns |-> JsonNumber(ToFixed(l.Ns, 2)),
     unss |-> JsonNumber(ToFixed(l.UNss, 4)),
     nss |-> JsonNumber(ToFixed(l.Nss, 2)),
     phi |-> JsonNumber(ToFixed(l.Phi, 4)),
     angvel |-> JsonNumber(ToFixed(l.AngVel, 2)),
     tipspeed |-> JsonNumber(ToFixed(l.U2, 2)),
     impdia |-> JsonNumber(ToFixed(l.ImpDia, 2)),
     headstage |-> JsonNumber(ToFixed(l.HeadStage, 1)),
     hydpower |-> JsonNumber(ToFixed(l.kW, 2)),
     reynolds |-> JsonNumber(ToFixed(l.Re, 2)),
     cq |-> JsonNumber(ToFixed(l.viscous.CQ, 2)),
     ch |-> JsonNumber(ToFixed(l.viscous.CH, 2)),
     ce |-> JsonNumber(ToFixed(l.viscous.CE, 2)),
     nstatus |-> l.Nstatus,
     statusText |-> l.statusText,
     warnings |-> l.warnings,
     performanceData |-> [f \in DOMAIN l.performanceData |-> JsonNumbers(l.performanceData[f])],
     newPumpPerformance |->
         IF l.newPumpPerformance.kind = "null" THEN [kind |-> "null"]
         ELSE [kind |-> "estimate",
               v |-> [f \in DOMAIN l.newPumpPerformance.v |->
                         JsonNumber(l.newPumpPerformance.v[f])]]]

NoLocals == [kind |-> "none"]

\* a catch block that answers 200 with the same body
ServerErrorAnswered(message, now) ==
    [response |-> [statusCode |-> 200,
                   body |-> [kind |-> "error", error |-> "Server error during pump calculation",
                             details |-> message, timestamp |-> now]],
     locals |-> NoLocals]

\* the catch block's response; `now` is what new Date() reads
ServerError(message, now) ==
    [response |-> [statusCode |-> 500,
                   body |-> [kind |-> "error", error |-> "Server error during pump calculation",
                             details |-> message, timestamp |-> now]],
     locals |-> NoLocals]

Returned(statusCode, body, l) ==
    [thrown |-> FALSE, locals |-> l, response |-> [statusCode |-> statusCode, body |-> body]]

Thrown(message) == [thrown |-> TRUE, message |-> message]

\* the result object and its 200 response
respond(l) == Returned(200, ResultBody(l), l)

\* the validation loop having stopped at entry `bad` (0: at none), and the
\* rest of the try block
validated(payload, bad) ==
    IF bad # 0
    THEN Returned(400, [kind |-> "error", error |-> "Invalid or missing number for",
                        field |-> Numbers(payload)[bad].key], NoLocals)
    ELSE respond(PumpLocals(payload))

\* the body of the try block once the payload is destructured
tryPayload(payload) == validated(payload, FirstInvalid(Numbers(payload)))

EmptyPayload == [f \in {"n", "q", "tdhm", "npsha", "suctype", "sg", "num_impellers", "viscosity"} |-> Undefined]

\* a handler that parses the body before it looks at the method
handlerTryParseFirst(ev) ==
    IF ev.body.kind = "invalid" THEN Thrown("SyntaxError")
    ELSE IF ev.body.kind = "null" THEN Thrown("TypeError")
    ELSE IF ev.httpMethod = "OPTIONS" THEN Returned(200, [kind |-> "empty"], NoLocals)
    ELSE IF ev.httpMethod # "POST"
    THEN Returned(405, [kind |-> "error", error |-> "Method not allowed"], NoLocals)
    ELSE tryPayload(IF ev.body.kind = "empty" THEN EmptyPayload ELSE ev.body.payload)

\* exports.handler up to its return or to the throw the catch block receives
handlerTry(ev) ==
    IF ev.httpMethod = "OPTIONS" THEN Returned(200, [kind |-> "empty"], NoLocals)
    ELSE IF ev.httpMethod # "POST"
    THEN Returned(405, [kind |-> "error", error |-> "Method not allowed"], NoLocals)
    ELSE IF ev.body.kind = "invalid" THEN Thrown("SyntaxError")
    ELSE IF ev.body.kind = "null" THEN Thrown("TypeError")
    ELSE tryPayload(IF ev.body.kind = "empty" THEN EmptyPayload ELSE ev.body.payload)

\* the return with the time of the invocation written into every body
handlerReturnStamped(outcome, now) ==
    IF outcome.thrown THEN ServerError(outcome.message, now)
    ELSE [response |-> [statusCode |-> outcome.response.statusCode,
                        body |-> outcome.response.body @@ [timestamp |-> now]],
          locals |-> outcome.locals]

\* what the handler returns: its return value, or the catch block's
handlerReturn(outcome, now) ==
    IF outcome.thrown THEN ServerError(outcome.message, now)
    ELSE [response |-> outcome.response, locals |-> outcome.locals]

\* exports.handler
handler(ev, now) == handlerReturn(handlerTry(ev), now)

----------------------------------------------------------------------------
(* The requests *)

\* most fields of one payload that are not finite numbers
MaxBad == 2
\* the latest time of a request
MaxTime == 1

Methods == {"OPTIONS", "POST", "GET"}

\* speeds that put Ns on each threshold of the status chain at the rated
\* flow and a 16 m stage, one beyond the last warning limit, one negative,
\* and three that put Uns on 1 (Ns = 52.919), just below it and just above
Speeds == {Dec(160, 0), Dec(320, 0), Dec(480, 0), Dec(640, 0), Dec(800, 0), Dec(1400, 0),
           Dec(6000, 0), Dec(-1400, 0), Dec(423352, -3), Dec(423344, -3), Dec(42336, -2)}
RatedFlows == {Dec(3600, 0)}
RatedHeads == {Dec(16, 0), Dec(120, 0)}
Npshas == {Dec(6, 0), Dec(12, 0)}
SGs == {Dec(85, -2)}
Impellers == {Dec(1, 0), Dec(2, 0), Dec(3, 0)}

\* flows around the limits 20 and 61 of the small-pump estimate, zero and
\* negative flows, at a low, a high and a negative speed
SmallPumpSpeeds == {Dec(160, 0), Dec(1400, 0), Dec(-1400, 0)}
Flows == {Dec(500, 0), Dec(61, 0), Dec(30, 0), Dec(20, 0), Zero, Dec(-100, 0)}
Heads == {Dec(10, 0), Dec(120, 0)}
SucTypes == {Dec(1, 0), Dec(2, 0), Dec(3, 0)}
Viscosities == {Dec(1, 0), Dec(100, 0)}

Keys == {"n", "q", "tdhm", "npsha", "suctype", "sg", "num_impellers", "viscosity"}

\* what JSON.parse can put in a field besides a finite number: nothing, a
\* value of another type, or an infinity (1e999)
BadValues == {Undefined, AString, Null, PInf}

ThresholdPayloads ==
    [n : Speeds, q : RatedFlows, tdhm : RatedHeads, npsha : Npshas, suctype : {One},
     sg : SGs, num_impellers : Impellers, viscosity : {One}]

\* a negative speed with a zero flow is left out: it makes Ns a negative zero,
\* which the numbers of this model do not have
SmallPumpPayloads ==
    {p \in [n : SmallPumpSpeeds, q : Flows, tdhm : Heads, npsha : {Dec(6, 0)},
            suctype : SucTypes, sg : SGs, num_impellers : {One}, viscosity : Viscosities] :
        ~(p.n.m < 0 /\ p.q.m = 0)}

\* payloads with no impeller, which the validation loop lets through
ZeroStagePayloads ==
    [n : {Dec(1400, 0)}, q : {Dec(500, 0), Dec(30, 0)}, tdhm : Heads, npsha : {Dec(6, 0)},
     suctype : {One}, sg : SGs, num_impellers : {Zero}, viscosity : {One}]

FinitePayloads == ThresholdPayloads \cup SmallPumpPayloads \cup ZeroStagePayloads

ExamplePayload ==
    [n |-> Dec(3000, 0), q |-> Dec(500, 0), tdhm |-> Dec(120, 0), npsha |-> Dec(6, 0),
     suctype |-> Dec(1, 0), sg |-> Dec(1, 0), num_impellers |-> Dec(1, 0),
     viscosity |-> Dec(1, 0)]

\* the example payload with up to MaxBad fields replaced by bad values
BadPayloads ==
    {[f \in Keys |-> IF f \in DOMAIN b THEN b[f] ELSE ExamplePayload[f]] :
        b \in UNION {[ks -> BadValues] : ks \in {s \in SUBSET Keys : Cardinality(s) \in 1..MaxBad}}}

Bodies ==
    {[kind |-> "empty"], [kind |-> "invalid"], [kind |-> "null"]}
    \cup {[kind |-> "json", payload |-> p] : p \in FinitePayloads \cup BadPayloads}

Events ==
    {[httpMethod |-> m, body |-> [kind |-> "invalid"]] : m \in Methods \ {"POST"}}
    \cup {[httpMethod |-> "POST", body |-> b] : b \in Bodies}

VARIABLES
    phase,      \* "idle", "invoked" or "returned"
    event,      \* the request the platform passed to the handler
    response,   \* what the handler returned
    locals      \* the handler's locals at its return statement

vars == <<phase, event, response, locals>>

NoEvent == [httpMethod |-> "none", body |-> [kind |-> "none"]]
NoResponse == [statusCode |-> 0, body |-> [kind |-> "none"]]

Init ==
    /\ phase = "idle"
    /\ event = NoEvent
    /\ response = NoResponse
    /\ locals = NoLocals

\* the platform invokes the function with an event
Invoke(ev) ==
    /\ phase = "idle"
    /\ phase' = "invoked"
    /\ event' = ev
    /\ UNCHANGED <<response, locals>>

\* exports.handler runs to its return
\* (handler(event, now), with the try block evaluated once for every `now`)
Handle ==
    /\ phase = "invoked"
    /\ \E now \in 0..MaxTime :
           \E r \in {handler(event, now)} :
               /\ response' = r.response
               /\ locals' = r.locals
    /\ phase' = "returned"
    /\ UNCHANGED event

\* the response is delivered; nothing of the invocation is kept
Deliver ==
    /\ phase = "returned"
    /\ phase' = "idle"
    /\ event' = NoEvent
    /\ response' = NoResponse
    /\ locals' = NoLocals

Next ==
    \/ \E ev \in Events : Invoke(ev)
    \/ Handle
    \/ Deliver

Spec == Init /\ [][Next]_vars

----------------------------------------------------------------------------
(* netlify/functions/mooring.js *)

\* Math.round: the nearest integer, halves upwards
MathRound(x) ==
    IF ~IsFinite(x) \/ x.e >= 0 THEN x ELSE Int2Num(Floor(Add(x, Half)))

\* the cosine series 1 - u/2! + u^2/4! - ... in u = r * r, for |r| <= pi/2
CosSeries(u) ==
    LET step(n, rest) == Sub(One, Mul(Div(u, Int2Num(n)), rest))
    IN  step(2, step(12, step(30, step(56, step(90, step(132, step(182, step(240,
            One))))))))

\* the cosine of r, -pi <= r <= pi
CosHalfTurn(r) ==
    IF Gt(Magnitude(r), Div(MathPI, Two))
    THEN Neg(CosSeries(Mul(Sub(MathPI, Magnitude(r)), Sub(MathPI, Magnitude(r)))))
    ELSE CosSeries(Mul(r, r))

\* Math.cos, the argument reduced by whole turns
MathCos(x) ==
    IF ~IsFinite(x) THEN NaN
    ELSE CosHalfTurn(Sub(x, Mul(Mul(Two, MathPI), MathRound(Div(x, Mul(Two, MathPI))))))

validSystems == {"Turret Mooring", "Spread Mooring", "Internal Turret", "External Turret"}
validMaterials == {"Chain", "Wire Rope", "Synthetic Fiber", "Hybrid"}

K_MBL ==
    [m \in validMaterials |->
        CASE m = "Chain" -> Dec(60, -2)
          [] m = "Wire Rope" -> Dec(85, -2)
          [] m = "Synthetic Fiber" -> Dec(55, -2)
          [] m = "Hybrid" -> Dec(70, -2)]

E_MATERIAL ==
    [m \in validMaterials |->
        CASE m = "Chain" -> [E |-> Dec(200, 9), eta |-> Dec(60, -2)]
          [] m = "Wire Rope" -> [E |-> Dec(200, 9), eta |-> Dec(60, -2)]
          [] m = "Synthetic Fiber" -> [E |-> Dec(50, 9), eta |-> Dec(95, -2)]
          [] m = "Hybrid" -> [E |-> Dec(150, 9), eta |-> Dec(70, -2)]]

knToMS(kn) == Mul(kn, Dec(514444, -6))
degToRad(d) == Div(Mul(d, MathPI), Dec(180, 0))

\* system.includes("Spread") holds for "Spread Mooring" alone of validSystems
effLines(system, N) ==
    IF system = "Spread Mooring" THEN MathMax(Dec(3, 0), MathRound(Div(N, Dec(3, 0))))
    ELSE MathMax(Dec(3, 0), MathRound(Div(N, Dec(4, 0))))

\* the template string `Grade (≈ n yrs)` as its two parts
fatigueGrade(material, dT) ==
    LET C == IF material = "Synthetic Fiber" THEN Dec(2, 12) ELSE Dec(1, 12)
        Ncycles == Div(C, MathPow(MathMax(dT, One), Dec(3, 0)))
        years == Div(Ncycles, Dec(1, 6))
    IN  IF Ge(years, Dec(25, 0)) THEN [grade |-> "Good", yrs |-> ToFixed(years, 0)]
        ELSE IF Ge(years, Dec(10, 0)) THEN [grade |-> "Fair", yrs |-> ToFixed(years, 0)]
        ELSE [grade |-> "Poor", yrs |-> MathMax(One, ToFixed(years, 0))]

\* const numbers = { depth_m, ..., daf }, in the order of its keys
mooringNumberKeys ==
    << "depth_m", "disp_t", "loa_m", "beam_m", "draft_m", "current_kn", "hs_m", "tp_s",
       "wind_ms", "nlines", "sf", "diameter_mm", "lineLen_m", "pret_kN", "theta_deg",
       "surge_m", "sway_m", "yaw_deg", "yawArm_m", "daf" >>

\* the first key of `numbers` whose value fails the test, 0 for none
mooringFirstInvalid(payload) ==
    LET bad == {i \in DOMAIN mooringNumberKeys : InvalidNumber(payload[mooringNumberKeys[i]])}
    IN  IF bad = {} THEN 0 ELSE CHOOSE i \in bad : \A j \in bad : i <= j

\* Aunder, Awind, U, theta, neff, MBL_kN, EA_N and the three forces
MooringLocals1(p) ==
    LET Aunder == Mul(p.beam_m, p.draft_m)
        Awind == IF ~IsNum(p.awind_m2) \/ IsNaN(p.awind_m2)
                 THEN Mul(Mul(Dec(65, -2), p.loa_m), p.beam_m)
                 ELSE p.awind_m2
        U == knToMS(p.current_kn)
        d_m == Div(p.diameter_mm, Dec(1000, 0))
        area == Mul(Mul(MathPI, MathPow(Div(d_m, Two), Two)), E_MATERIAL[p.material].eta)
    IN  p @@ [kind |-> "computed",
              theta |-> degToRad(p.theta_deg),
              F_current |-> Mul(Mul(Mul(Mul(Mul(Half, Dec(1025, 0)), Dec(105, -2)), Aunder), U), U),
              F_wind |-> Mul(Mul(Mul(Mul(Mul(Half, Dec(1225, -3)), Dec(12, -1)), Awind),
                                 p.wind_ms), p.wind_ms),
              F_wave |-> Mul(Mul(Mul(Mul(Mul(Mul(Half, Dec(1025, 0)), Dec(981, -2)), p.hs_m),
                                     p.hs_m), p.beam_m),
                             Add(One, Mul(Dec(3, -2), p.tp_s))),
              neff |-> effLines(p.system, p.nlines),
              MBL_kN |-> Mul(Mul(K_MBL[p.material], p.diameter_mm), p.diameter_mm),
              EA_N |-> Mul(E_MATERIAL[p.material].E, area),
              yaw_rad |-> degToRad(p.yaw_deg)]

\* F_env_kN, K_sys_kN_per_m, T_line_static_kN and x_eq_m
MooringLocals2(l) ==
    LET K_line_N_per_m == Div(l.EA_N, MathMax(l.lineLen_m, One))
        F_env_kN == Div(Add(Add(l.F_current, l.F_wind), l.F_wave), Dec(1000, 0))
    IN  l @@ [F_env_kN |-> F_env_kN,
              K_sys_kN_per_m |-> Div(Mul(Mul(Mul(K_line_N_per_m, l.neff), MathCos(l.theta)),
                                         MathCos(l.theta)), Dec(1000, 0)),
              T_line_static_kN |-> Add(Div(Div(F_env_kN, l.neff), MathCos(l.theta)), l.pret_kN),
              x_eq_m |-> Add(Add(l.surge_m, l.sway_m), Mul(l.yaw_rad, l.yawArm_m))]

\* deltaT_dyn_kN, T_line_peak_kN and offset_m
MooringLocals3(l) ==
    LET deltaT_dyn_kN == IF Gt(l.K_sys_kN_per_m, Dec(1, -9))
                         THEN Mul(Div(l.K_sys_kN_per_m, l.neff),
                                  Div(l.x_eq_m, MathCos(l.theta)))
                         ELSE Zero
    IN  l @@ [deltaT_dyn_kN |-> deltaT_dyn_kN,
              T_line_peak_kN |-> Add(l.T_line_static_kN,
                                     Mul(MathMax(One, OrElse(l.daf, One)), deltaT_dyn_kN)),
              offset_m |-> IF Gt(l.K_sys_kN_per_m, Dec(1, -9))
                           THEN Div(l.F_env_kN, l.K_sys_kN_per_m)
                           ELSE PInf]

\* the utilizations, the offset in percent and the fatigue grade
MooringLocals4(l) ==
    l @@ [utilization_static |-> Div(Mul(l.T_line_static_kN, l.sf), l.MBL_kN),
          utilization_peak |-> Div(Mul(l.T_line_peak_kN, l.sf), l.MBL_kN),
          offset_pctDepth |-> Mul(Div(l.offset_m, l.depth_m), Hundred),
          fatigue |-> fatigueGrade(l.material, Mul(Dec(25, -2), l.T_line_peak_kN)),
          vesselNote |-> IF Lt(l.disp_t, Dec(150000, 0)) \/ Lt(l.loa_m, Dec(250, 0))
                            \/ Lt(l.beam_m, Dec(45, 0))
                         THEN "Verify" ELSE "OK"]

\* the recommendations, each named by its first words
recommendations(l) ==
    LET r1 == IF Gt(l.utilization_peak, One) THEN <<"Increase line diameter">> ELSE << >>
        r2 == IF Gt(l.utilization_peak, Dec(85, -2)) /\ Le(l.utilization_peak, One)
              THEN <<"Borderline peak capacity">> ELSE << >>
        r3 == IF Gt(l.offset_pctDepth, Dec(10, 0)) THEN <<"Offset >10% of water depth">>
              ELSE << >>
        r4 == IF Gt(l.F_env_kN, Div(Mul(l.neff, l.MBL_kN), l.sf))
              THEN <<"Global capacity shortfall">> ELSE << >>
        rec == r1 \o r2 \o r3 \o r4
    IN  IF Len(rec) = 0 THEN <<"Within screening targets">> ELSE rec

\* Test B of runTests
testB(l) ==
    [name |-> "Static tension drops with more lines",
     pass |-> Lt(Add(Div(Div(l.F_env_kN, effLines(l.system, Add(l.nlines, Dec(4, 0)))),
                         MathCos(l.theta)),
                     l.pret_kN),
                 l.T_line_static_kN)]

runTests(l) ==
    << [name |-> "MBL increases with diameter",
        pass |-> Gt(Mul(Mul(K_MBL[l.material], Add(l.diameter_mm, Dec(20, 0))),
                        Add(l.diameter_mm, Dec(20, 0))),
                    l.MBL_kN)],
       testB(l),
       [name |-> "Peak utilization rises with higher SF",
        pass |-> Gt(Div(Mul(l.T_line_peak_kN, Add(l.sf, Dec(25, -2))), l.MBL_kN),
                    l.utilization_peak)] >>

\* Math.round(x * s) / s
RoundedTo(x, s) == Div(MathRound(Mul(x, s)), s)

\* JSON.stringify(result)
MooringResultBody(l) ==
    [kind |-> "result",
     F_current_kN |-> JsonNumber(RoundedTo(Div(l.F_current, Dec(1000, 0)), Hundred)),
     F_wind_kN |-> JsonNumber(RoundedTo(Div(l.F_wind, Dec(1000, 0)), Hundred)),
     F_wave_kN |-> JsonNumber(RoundedTo(Div(l.F_wave, Dec(1000, 0)), Hundred)),
     F_env_kN |-> JsonNumber(RoundedTo(l.F_env_kN, Hundred)),
     neff |-> JsonNumber(l.neff),
     MBL_kN |-> JsonNumber(MathRound(l.MBL_kN)),
     EA_GN |-> JsonNumber(RoundedTo(Div(l.EA_N, Dec(1, 9)), Hundred)),
     K_sys_kN_per_m |-> JsonNumber(RoundedTo(l.K_sys_kN_per_m, Dec(10, 0))),
     T_line_static_kN |-> JsonNumber(MathRound(l.T_line_static_kN)),
     deltaT_dyn_kN |-> JsonNumber(MathRound(l.deltaT_dyn_kN)),
     T_line_peak_kN |-> JsonNumber(MathRound(l.T_line_peak_kN)),
     utilization_static |-> JsonNumber(RoundedTo(l.utilization_static, Dec(1000, 0))),
     utilization_peak |-> JsonNumber(RoundedTo(l.utilization_peak, Dec(1000, 0))),
     safetyMargin_peak |->
         JsonNumber(RoundedTo(Mul(Sub(Div(One, l.utilization_peak), One), Hundred), Dec(10, 0))),
     offset_m |-> JsonNumber(RoundedTo(l.offset_m, Dec(10, 0))),
     offset_pctDepth |-> JsonNumber(RoundedTo(l.offset_pctDepth, Dec(10, 0))),
     fatigue |-> l.fatigue,
     vesselNote |-> l.vesselNote,
     recommendations |-> recommendations(l),
     tests |-> runTests(l)]

\* the locals of the try block once the three validations have passed
MooringLocals(payload) ==
    MooringLocals4(MooringLocals3(MooringLocals2(MooringLocals1(payload))))

\* the try block after JSON.parse
mooringTry(payload) ==
    IF mooringFirstInvalid(payload) # 0
    THEN Returned(400, [kind |-> "error", error |-> "Invalid or missing number for",
                        field |-> mooringNumberKeys[mooringFirstInvalid(payload)]], NoLocals)
    ELSE IF payload.system \notin validSystems
    THEN Returned(400, [kind |-> "error", error |-> "Invalid mooring system type"], NoLocals)
    ELSE IF payload.material \notin validMaterials
    THEN Returned(400, [kind |-> "error", error |-> "Invalid line material"], NoLocals)
    ELSE LET l == MooringLocals(payload) IN Returned(200, MooringResultBody(l), l)

\* the catch block's response
MooringServerError(message, now) ==
    [response |-> [statusCode |-> 500,
                   body |-> [kind |-> "error", error |-> "Server error during mooring calculation",
                             details |-> message, timestamp |-> now]],
     locals |-> NoLocals]

\* JSON.parse("{}") destructured: every field undefined ("undefined" stands
\* for a system or material that is not a string of the lists)
MooringEmptyPayload ==
    [f \in RangeOf(mooringNumberKeys) \cup {"awind_m2"} |-> Undefined]
    @@ [system |-> "undefined", material |-> "undefined"]

\* exports.handler up to its return or to the throw the catch block receives
mooringHandlerTry(ev) ==
    IF ev.httpMethod = "OPTIONS" THEN Returned(200, [kind |-> "empty"], NoLocals)
    ELSE IF ev.httpMethod # "POST"
    THEN Returned(405, [kind |-> "error", error |-> "Method not allowed"], NoLocals)
    ELSE IF ev.body.kind = "invalid" THEN Thrown("SyntaxError")
    ELSE IF ev.body.kind = "null" THEN Thrown("TypeError")
    ELSE mooringTry(IF ev.body.kind = "empty" THEN MooringEmptyPayload ELSE ev.body.payload)

\* exports.handler of mooring.js
mooringHandler(ev, now) ==
    LET outcome == mooringHandlerTry(ev)
    IN  IF outcome.thrown THEN MooringServerError(outcome.message, now)
        ELSE [response |-> outcome.response, locals |-> outcome.locals]

\* a storm on a 300 m vessel moored in 1000 m of water
MooringExample ==
    [depth_m |-> Dec(1000, 0), disp_t |-> Dec(200000, 0), loa_m |-> Dec(300, 0),
     beam_m |-> Dec(50, 0), draft_m |-> Dec(12, 0), current_kn |-> Dec(2, 0),
     hs_m |-> Dec(5, 0), tp_s |-> Dec(12, 0), wind_ms |-> Dec(30, 0), awind_m2 |-> Undefined,
     system |-> "Turret Mooring", nlines |-> Dec(12, 0), sf |-> Dec(167, -2),
     material |-> "Chain", diameter_mm |-> Dec(120, 0), lineLen_m |-> Dec(1500, 0),
     pret_kN |-> Dec(500, 0), theta_deg |-> Dec(30, 0), surge_m |-> Dec(5, 0),
     sway_m |-> Dec(3, 0), yaw_deg |-> Dec(2, 0), yawArm_m |-> Dec(100, 0),
     daf |-> Dec(13, -1)]

\* the example with the fields of `change` replaced
MooringWith(change) ==
    [f \in DOMAIN MooringExample |-> IF f \in DOMAIN change THEN change[f] ELSE MooringExample[f]]

\* line counts around the steps of round(N / 3) and round(N / 4), none and
\* a negative count; line angles on both sides of 90 degrees; a storm and a
\* calm (no current, no waves, no wind)
LineCounts == {Dec(0, 0), Dec(1, 0), Dec(4, 0), Dec(8, 0), Dec(9, 0), Dec(12, 0), Dec(16, 0),
               Dec(-8, 0)}
LineAngles == {Dec(0, 0), Dec(30, 0), Dec(120, 0)}
Pretensions == {Dec(0, 0), Dec(500, 0)}
Weathers == {[current_kn |-> Dec(2, 0), hs_m |-> Dec(5, 0), wind_ms |-> Dec(30, 0)],
             [current_kn |-> Zero, hs_m |-> Zero, wind_ms |-> Zero]}

MooringPayloads ==
    {MooringWith([nlines |-> n, system |-> s, theta_deg |-> a, pret_kN |-> t] @@ w) :
        n \in LineCounts, s \in validSystems, a \in LineAngles, t \in Pretensions,
        w \in Weathers}
    \cup {MooringWith([material |-> m, awind_m2 |-> aw]) :
            m \in validMaterials \cup {"Rubber", "undefined"},
            aw \in {Undefined, Null, Dec(12000, 0)}}
    \cup {MooringWith([system |-> s]) : s \in {"Catenary", "undefined"}}
    \cup {MooringWith([f \in {k} |-> v]) :
            k \in {"depth_m", "nlines", "daf"}, v \in BadValues}

MooringEvents ==
    {[httpMethod |-> m, body |-> [kind |-> "invalid"]] : m \in Methods \ {"POST"}}
    \cup {[httpMethod |-> "POST", body |-> b] :
            b \in {[kind |-> "empty"], [kind |-> "invalid"], [kind |-> "null"]}
                  \cup {[kind |-> "json", payload |-> p] : p \in MooringPayloads}}

\* exports.handler of mooring.js runs to its return
MooringHandle ==
    /\ phase = "invoked"
    /\ \E now \in 0..MaxTime :
           \E r \in {mooringHandler(event, now)} :
               /\ response' = r.response
               /\ locals' = r.locals
    /\ phase' = "returned"
    /\ UNCHANGED event

MooringNext ==
    \/ \E ev \in MooringEvents : Invoke(ev)
    \/ MooringHandle
    \/ Deliver

MooringSpec == Init /\ [][MooringNext]_vars

----------------------------------------------------------------------------
(* netlify/functions/issue-backend-token.js *)

TEN_MINUTES_SECONDS == 600

\* headers[name], the empty string standing for a header that is not there
\* (both are falsy)
HeaderOf(headers, name) == IF name \in DOMAIN headers THEN headers[name] ELSE ""

\* a || b on strings
OrString(a, b) == IF a # "" THEN a ELSE b

getOrigin(ev) == OrString(HeaderOf(ev.headers, "origin"), HeaderOf(ev.headers, "Origin"))

\* /(^|;\s*)murphy_session=/.test(cookie), the cookie header being the
\* sequence of its name=value pairs
hasSessionCookie(cookie) == \E i \in DOMAIN cookie : cookie[i].name = "murphy_session"

validateMurphySession(ev) ==
    LET cookie == IF "cookie" \in DOMAIN ev.headers THEN ev.headers.cookie ELSE << >>
        userId == OrString(OrString(HeaderOf(ev.headers, "x-murphy-user-id"),
                                    HeaderOf(ev.headers, "X-Murphy-User-Id")),
                           IF hasSessionCookie(cookie) THEN "session-user" ELSE "")
    IN  IF userId = "" THEN [kind |-> "null"]
        ELSE [kind |-> "session", userId |-> userId,
              email |-> OrString(HeaderOf(ev.headers, "x-murphy-email"),
                                 HeaderOf(ev.headers, "X-Murphy-Email")),
              roles |-> <<"member">>]

\* json(statusCode, { error })
TokenError(statusCode, error) ==
    [response |-> [statusCode |-> statusCode, body |-> [kind |-> "error", error |-> error]],
     locals |-> NoLocals]

\* jwt.sign(payload, secret, { algorithm: 'HS256' }): the claims and the key
\* that signs them
jwtSign(payload, secret) == [payload |-> payload, key |-> secret, algorithm |-> "HS256"]

\* the handler from the secret on; `now` is Math.floor(Date.now() / 1000),
\* and an empty email stands for the claim left out of the payload
issueToken(ev, session, secret, now) ==
    IF secret = "" THEN TokenError(500, "JWT_SIGNING_SECRET not set")
    ELSE [response |->
              [statusCode |-> 200,
               body |-> [kind |-> "token",
                         token |-> jwtSign([sub |-> session.userId, email |-> session.email,
                                            roles |-> session.roles,
                                            iss |-> "https://murphycurves.com",
                                            aud |-> "murphy-ai", iat |-> now,
                                            exp |-> now + TEN_MINUTES_SECONDS],
                                           secret),
                         expiresInSeconds |-> TEN_MINUTES_SECONDS],
               allowOrigin |-> OrString(OrString(ev.env.ALLOWED_ORIGIN, getOrigin(ev)), "*")],
          locals |-> [kind |-> "issued", session |-> session, now |-> now]]

\* a handler that looks for the session before it looks at the origin
tokenHandlerSessionFirst(ev, ms) ==
    IF ev.httpMethod \notin {"GET", "POST"} THEN TokenError(405, "Method Not Allowed")
    ELSE IF ev.headers = Undefined THEN TokenError(500, "Token issuance failed")
    ELSE IF validateMurphySession(ev).kind = "null" THEN TokenError(401, "Not authenticated")
    ELSE IF ev.env.ALLOWED_ORIGIN # "" /\ getOrigin(ev) # ""
            /\ getOrigin(ev) # ev.env.ALLOWED_ORIGIN
    THEN TokenError(403, "Forbidden origin")
    ELSE issueToken(ev, validateMurphySession(ev), ev.env.JWT_SIGNING_SECRET, ms \div 1000)

\* exports.handler; `ms` is what Date.now() reads.  An event without
\* headers makes getOrigin throw, which the catch block answers
tokenHandler(ev, ms) ==
    IF ev.httpMethod \notin {"GET", "POST"} THEN TokenError(405, "Method Not Allowed")
    ELSE IF ev.headers = Undefined THEN TokenError(500, "Token issuance failed")
    ELSE IF ev.env.ALLOWED_ORIGIN # "" /\ getOrigin(ev) # ""
            /\ getOrigin(ev) # ev.env.ALLOWED_ORIGIN
    THEN TokenError(403, "Forbidden origin")
    ELSE IF validateMurphySession(ev).kind = "null" THEN TokenError(401, "Not authenticated")
    ELSE issueToken(ev, validateMurphySession(ev), ev.env.JWT_SIGNING_SECRET, ms \div 1000)

\* the headers a request can carry: an origin under either spelling, a user
\* id under either spelling (or empty), an email, and cookies with and
\* without murphy_session
OriginHeaders ==
    {<< >>} \cup {[n \in {k} |-> v] : k \in {"origin", "Origin"},
                                      v \in {"https://murphycurves.com", "https://evil.example"}}
SessionHeaders ==
    {<< >>,
     [n \in {"x-murphy-user-id"} |-> "u1"],
     [n \in {"X-Murphy-User-Id"} |-> "u2"],
     [n \in {"x-murphy-user-id", "x-murphy-email"} |-> IF n = "x-murphy-email" THEN "a@b.c" ELSE "u1"],
     [n \in {"x-murphy-email"} |-> "a@b.c"],
     [n \in {"X-MURPHY-USER-ID"} |-> "u3"]}
CookieHeaders ==
    {<< >>} \cup {[n \in {"cookie"} |-> c] :
                     c \in {<<[name |-> "murphy_session", value |-> "abc"]>>,
                            <<[name |-> "theme", value |-> "dark"],
                              [name |-> "murphy_session", value |-> ""]>>,
                            <<[name |-> "xmurphy_session", value |-> "abc"]>>}}

TokenEnvs ==
    [ALLOWED_ORIGIN : {"", "https://murphycurves.com"}, JWT_SIGNING_SECRET : {"", "s3cret"}]

\* the requests, each with the process environment it runs in
TokenEvents ==
    {[httpMethod |-> m, headers |-> o @@ s @@ c, env |-> e] :
        m \in {"GET", "POST", "OPTIONS"}, o \in OriginHeaders, s \in SessionHeaders,
        c \in CookieHeaders, e \in TokenEnvs}
    \cup {[httpMethod |-> m, headers |-> Undefined, env |-> e] :
            m \in {"GET", "PUT"}, e \in TokenEnvs}

\* exports.handler of issue-backend-token.js runs to its return, at a time
\* of 0, 1.5, 3, ... seconds
TokenHandle ==
    /\ phase = "invoked"
    /\ \E t \in 0..MaxTime :
           \E r \in {tokenHandler(event, 1500 * t)} :
               /\ response' = r.response
               /\ locals' = r.locals
    /\ phase' = "returned"
    /\ UNCHANGED event

TokenNext ==
    \/ \E ev \in TokenEvents : Invoke(ev)
    \/ TokenHandle
    \/ Deliver

TokenSpec == Init /\ [][TokenNext]_vars

----------------------------------------------------------------------------
(* netlify/functions/electrical.js *)

\* Math.ceil of a number below 10^9 in magnitude
MathCeil(x) ==
    IF ~IsFinite(x) \/ x.e >= 0 THEN x ELSE Int2Num(-Floor(Neg(x)))

a_norm == Dec(31540621, -4)
b_norm == Dec(11841899, -4)
a_off == Dec(58007149, -4)
b_off == Dec(83486855, -5)
e_norm_per_mtpa == Div(Dec(37465509, -3), Dec(24, -1))
e_off_per_mtpa == Div(Dec(47578144, -3), Dec(24, -1))

baseKW(mtpa, scenario, driver) ==
    IF driver = "Aux-Only"
    THEN (IF scenario = "Normal" THEN Add(a_norm, Mul(b_norm, mtpa))
          ELSE Add(a_off, Mul(b_off, mtpa)))
    ELSE (IF scenario = "Normal" THEN Mul(e_norm_per_mtpa, mtpa)
          ELSE Mul(e_off_per_mtpa, mtpa))

applyMargins(kW, g, r) ==
    Mul(kW, Add(Add(One, Div(g, Hundred)), Div(r, Hundred)))

\* recommendSets with the quotient rounded to the nearest integer
recommendSetsRounded(requiredKW, unitKWe, nPlusOne) ==
    LET running == MathMax(One, MathRound(Div(requiredKW, unitKWe)))
    IN  [running |-> running,
         total |-> IF nPlusOne \in {"true", "undefined"} THEN Add(running, One) ELSE running,
         loading |-> Div(requiredKW, Mul(running, unitKWe))]

\* nPlusOne is "true", "false", "null" or "undefined"; the default value
\* true replaces undefined alone
recommendSets(requiredKW, unitKWe, nPlusOne) ==
    LET running == MathMax(One, MathCeil(Div(requiredKW, unitKWe)))
    IN  [running |-> running,
         total |-> IF nPlusOne \in {"true", "undefined"} THEN Add(running, One) ELSE running,
         loading |-> Div(requiredKW, Mul(running, unitKWe))]

RECURSIVE genRangeFrom(_, _, _)
\* the loop of genRange from the value v on
genRangeFrom(v, max, step) ==
    IF Le(v, Add(max, Dec(1, -9)))
    THEN <<ToFixed(v, 2)>> \o genRangeFrom(Add(v, step), max, step)
    ELSE << >>

genRange(min, max, step) == genRangeFrom(min, max, step)

\* the four trend lines, the design point and the axis label
chartData(p, xs, kW_base) ==
    LET toMetric(kW) == IF p.plotMetric = "kVA" THEN Div(kW, p.pf) ELSE kW
        line(f(_)) == [i \in DOMAIN xs |-> [x |-> JsonNumber(xs[i]),
                                            y |-> JsonNumber(toMetric(f(xs[i])))]]
        AuxNorm(x) == Add(a_norm, Mul(b_norm, x))
        AuxOff(x) == Add(a_off, Mul(b_off, x))
        ENorm(x) == Mul(e_norm_per_mtpa, x)
        EOff(x) == Mul(e_off_per_mtpa, x)
    IN  [auxNorm |-> line(AuxNorm), auxOff |-> line(AuxOff),
         eNorm |-> line(ENorm), eOff |-> line(EOff),
         designPoint |-> [x |-> JsonNumber(p.mtpa), y |-> JsonNumber(toMetric(kW_base))],
         plotMetric |-> p.plotMetric,
         yAxisLabel |-> IF p.plotMetric = "kVA" THEN "Estimated Electrical Load (kVA)"
                        ELSE "Estimated Electrical Load (kW)"]

\* kW_base, kW_req, kVA_req and the five recommendations
ElectricalLocals(p) ==
    LET kW_base == baseKW(p.mtpa, p.scenario, p.driver)
        kW_req == applyMargins(kW_base, p.growth, p.reserve)
    IN  p @@ [kind |-> "computed", kW_base |-> kW_base, kW_req |-> kW_req,
              kVA_req |-> Div(kW_req, p.pf),
              A |-> recommendSets(kW_req, p.unitA, p.nplus1),
              B |-> recommendSets(kW_req, p.unitB, p.nplus1),
              C |-> recommendSets(kW_req, p.unitC, p.nplus1),
              D |-> recommendSets(kW_req, p.unitD, p.nplus1),
              E |-> recommendSets(kW_req, p.unitE, p.nplus1),
              xs |-> genRange(MathMin(p.mtpaMin, p.mtpaMax), MathMax(p.mtpaMin, p.mtpaMax),
                              Dec(1, -1))]

\* JSON.stringify(result); toFixed gives the digits of a string
ElectricalResultBody(l) ==
    LET option(unit, rec) == [unit |-> JsonNumber(unit), running |-> JsonNumber(rec.running),
                              total |-> JsonNumber(rec.total),
                              loading |-> ToFixed(Mul(rec.loading, Hundred), 1)]
    IN  [kind |-> "result",
         kW_base |-> JsonNumber(RoundedTo(l.kW_base, Dec(10, 0))),
         kVA_req |-> JsonNumber(RoundedTo(l.kVA_req, Dec(10, 0))),
         pfmarg |-> <<ToFixed(l.pf, 3), ToFixed(l.growth, 0), ToFixed(l.reserve, 0)>>,
         generators |-> [A |-> option(l.unitA, l.A), B |-> option(l.unitB, l.B),
                         C |-> option(l.unitC, l.C), D |-> option(l.unitD, l.D),
                         E |-> option(l.unitE, l.E)],
         chartData |-> chartData(l, l.xs, l.kW_base),
         coefficients |-> [a_norm |-> RoundedTo(a_norm, Dec(10, 0)),
                           b_norm |-> RoundedTo(b_norm, Dec(10, 0)),
                           a_off |-> RoundedTo(a_off, Dec(10, 0)),
                           b_off |-> RoundedTo(b_off, Dec(10, 0)),
                           e_norm |-> MathRound(e_norm_per_mtpa),
                           e_off |-> MathRound(e_off_per_mtpa)]]

\* const numbers = { mtpa, ..., unitE }, in the order of its keys
electricalNumberKeys ==
    << "mtpa", "pf", "growth", "reserve", "mtpaMin", "mtpaMax",
       "unitA", "unitB", "unitC", "unitD", "unitE" >>

\* the try block after JSON.parse
electricalTry(payload) ==
    LET bad == {i \in DOMAIN electricalNumberKeys :
                    InvalidNumber(payload[electricalNumberKeys[i]])}
    IN  IF bad # {}
        THEN Returned(400, [kind |-> "error", error |-> "Invalid or missing number for",
                            field |-> electricalNumberKeys[CHOOSE i \in bad :
                                                               \A j \in bad : i <= j]],
                      NoLocals)
        ELSE LET l == ElectricalLocals(payload) IN Returned(200, ElectricalResultBody(l), l)

\* JSON.parse("{}") destructured: every field undefined
ElectricalEmptyPayload ==
    [f \in RangeOf(electricalNumberKeys) |-> Undefined]
    @@ [scenario |-> "undefined", driver |-> "undefined", plotMetric |-> "undefined",
        nplus1 |-> "undefined"]

\* exports.handler of electrical.js; `now` is what new Date() reads
electricalHandler(ev, now) ==
    IF ev.httpMethod = "OPTIONS"
    THEN [response |-> [statusCode |-> 200, body |-> [kind |-> "empty"]], locals |-> NoLocals]
    ELSE IF ev.httpMethod # "POST"
    THEN [response |-> [statusCode |-> 405,
                        body |-> [kind |-> "error", error |-> "Method not allowed"]],
          locals |-> NoLocals]
    ELSE IF ev.body.kind \in {"invalid", "null"}
    THEN [response |->
              [statusCode |-> 500,
               body |-> [kind |-> "error", error |-> "Server error during electrical calculation",
                         details |-> IF ev.body.kind = "invalid" THEN "SyntaxError"
                                     ELSE "TypeError",
                         timestamp |-> now]],
          locals |-> NoLocals]
    ELSE LET outcome == electricalTry(IF ev.body.kind = "empty" THEN ElectricalEmptyPayload
                                      ELSE ev.body.payload)
         IN  [response |-> outcome.response, locals |-> outcome.locals]

\* plant sizes from none to 3.5 mtpa and a negative one; margins that keep
\* and that raise the load; unit ratings that divide the load of an idle
\* auxiliary plant (3154.0621 kW) exactly, once and ten times, larger and
\* smaller ratings, a zero and a negative rating
ElectricalPayloads ==
    [mtpa : {Zero, Dec(12, -1), Dec(24, -1), Dec(35, -1), Dec(-1, 0)},
     pf : {Dec(85, -2)},
     scenario : {"Normal", "Offloading"},
     driver : {"Aux-Only", "Electric"},
     growth : {Zero, Dec(10, 0)},
     reserve : {Zero, Dec(15, 0)},
     nplus1 : {"true", "false", "null", "undefined"},
     plotMetric : {"kW", "kVA"},
     mtpaMin : {Dec(1, 0)},
     mtpaMax : {Dec(13, -1)},
     unitA : {Dec(1000, 0), Zero, Dec(-5000, 0)},
     unitB : {Dec(31540621, -5)},
     unitC : {a_norm},
     unitD : {Dec(20000, 0)},
     unitE : {Dec(31540620, -4), Dec(31540622, -4)}]

ElectricalBadPayloads ==
    {[f \in DOMAIN p |-> IF f = k THEN v ELSE p[f]] :
        p \in {q \in ElectricalPayloads : q.mtpa = Dec(24, -1) /\ q.growth = Zero
                                           /\ q.reserve = Zero /\ q.nplus1 = "true"
                                           /\ q.plotMetric = "kW" /\ q.unitA = Dec(1000, 0)
                                           /\ q.scenario = "Normal" /\ q.driver = "Electric"},
        k \in {"mtpa", "pf", "unitE"}, v \in BadValues}

ElectricalEvents ==
    {[httpMethod |-> m, body |-> [kind |-> "invalid"]] : m \in Methods \ {"POST"}}
    \cup {[httpMethod |-> "POST", body |-> b] :
            b \in {[kind |-> "empty"], [kind |-> "invalid"], [kind |-> "null"]}
                  \cup {[kind |-> "json", payload |-> p] :
                           p \in ElectricalPayloads \cup ElectricalBadPayloads}}

\* exports.handler of electrical.js runs to its return
ElectricalHandle ==
    /\ phase = "invoked"
    /\ \E now \in 0..MaxTime :
           \E r \in {electricalHandler(event, now)} :
               /\ response' = r.response
               /\ locals' = r.locals
    /\ phase' = "returned"
    /\ UNCHANGED event

ElectricalNext ==
    \/ \E ev \in ElectricalEvents : Invoke(ev)
    \/ ElectricalHandle
    \/ Deliver

ElectricalSpec == Init /\ [][ElectricalNext]_vars

----------------------------------------------------------------------------
(* The claims *)

\* the handler has returned a computed result
Returned200 ==
    phase = "returned" /\ response.statusCode = 200 /\ response.body.kind = "result"

\* the handler has returned for a POST whose body parsed to an object
ReturnedForPayload ==
    phase = "returned" /\ event.httpMethod = "POST" /\ event.body.kind \in {"json", "empty"}

PayloadOf(ev) == IF ev.body.kind = "empty" THEN EmptyPayload ELSE ev.body.payload

\* the required fields in the order of the validation, and the name of each
\* in the error message
FieldOrder == <<"n", "q", "tdhm", "npsha", "suctype", "sg", "num_impellers", "viscosity">>
FieldLabel ==
    [n |-> "N", q |-> "Q", tdhm |-> "TDHm", npsha |-> "NPSHA", suctype |-> "SucType",
     sg |-> "SG", num_impellers |-> "NumImpellers", viscosity |-> "Viscosity"]

\* the positions of the fields that are not finite numbers
Offending(payload) == {i \in DOMAIN FieldOrder : payload[FieldOrder[i]].k # "fin"}

Least(S) == CHOOSE i \in S : \A j \in S : i <= j

\* C1: a POST whose payload has a required field that is missing, not a
\* number, NaN or infinite is answered 400 with no result computed, and the
\* message names the first such field in the order n, q, tdhm, npsha,
\* suctype, sg, num_impellers, viscosity
C1_InvalidFieldRejected ==
    ReturnedForPayload =>
        LET bad == Offending(PayloadOf(event))
        IN  bad # {} =>
                /\ response.statusCode = 400
                /\ response.body.kind = "error"
                /\ response.body.field = FieldLabel[FieldOrder[Least(bad)]]
                /\ locals = NoLocals

\* two fields are bad, the second an infinity, and the first is reported
C1_Witness ==
    /\ ReturnedForPayload
    /\ event.body.kind = "json"
    /\ Offending(event.body.payload) = {3, 5}
    /\ event.body.payload.suctype = PInf
    /\ response.statusCode = 400
    /\ response.body.field = "TDHm"

\* C2: every request whose suctype is a finite number other than 1 or 2 is
\* rejected with a validation error and no result
C2_SuctionTypeChecked ==
    (ReturnedForPayload /\ event.body.kind = "json"
        /\ IsFinite(event.body.payload.suctype)
        /\ event.body.payload.suctype \notin {One, Two})
    => (response.statusCode = 400 /\ locals = NoLocals)

\* the clauses of the alternate-pump trigger, on the handler's Q and Ns
FirstClause(Q, Ns) == Gt(Q, Dec(20, 0)) /\ Lt(Q, Dec(61, 0)) /\ Lt(Ns, Dec(20, 0))
SecondClause(Q, Ns) == Lt(Ns, Dec(18, 0)) /\ Le(Q, Dec(20, 0))

AlternatePresent == response.body.newPumpPerformance.kind # "null"

\* C3: the alternate-pump estimate is in the result if and only if
\* (20 < flow < 61 and Ns < 20) or (Ns < 18 and flow <= 20); it is absent for
\* flow >= 61, for Ns >= 20, and for flow <= 20 with 18 <= Ns < 20
C3_AlternateIffTrigger ==
    Returned200 =>
        /\ AlternatePresent <=> (FirstClause(locals.Q, locals.Ns) \/ SecondClause(locals.Q, locals.Ns))
        /\ Ge(locals.Q, Dec(61, 0)) => ~AlternatePresent
        /\ Ge(locals.Ns, Dec(20, 0)) => ~AlternatePresent
        /\ (Le(locals.Q, Dec(20, 0)) /\ Ge(locals.Ns, Dec(18, 0)) /\ Lt(locals.Ns, Dec(20, 0)))
                => ~AlternatePresent

\* the estimate is present at the boundary flow = 20, by the second clause
C3_Witness ==
    /\ Returned200
    /\ AlternatePresent
    /\ locals.Q = Dec(20, 0)
    /\ SecondClause(locals.Q, locals.Ns)

\* the thresholds from the highest down, and the band above each
Thresholds == <<Dec(175, 0), Dec(100, 0), Dec(80, 0), Dec(60, 0), Dec(40, 0), Dec(20, 0)>>
BandAbove == <<"Ns7", "Ns6", "Ns5", "Ns4", "Ns3", "Ns2">>
BandBelow == <<"Ns6", "Ns5", "Ns4", "Ns3", "Ns2", "Ns1">>
Bands == {"Ns1", "Ns2", "Ns3", "Ns4", "Ns5", "Ns6", "Ns7"}

\* the band of Ns: the one above the first threshold that Ns exceeds
FirstMatch(Ns) ==
    LET hits == {i \in DOMAIN Thresholds : Gt(Ns, Thresholds[i])}
    IN  IF hits = {} THEN "Ns1" ELSE BandAbove[Least(hits)]

\* C4: every Ns gets exactly one of the seven bands, the first match of the
\* thresholds 175, 100, 80, 60, 40, 20 taken from the highest down, and that
\* band is a key of the head, efficiency and NPSH coefficient tables
C4_BandIsFirstMatch ==
    Returned200 =>
        /\ locals.Nstatus \in Bands
        /\ locals.Nstatus = FirstMatch(locals.Ns)
        /\ response.body.nstatus = locals.Nstatus
        /\ \A curve \in {"head", "efficiency", "npsh"} :
               locals.Nstatus \in DOMAIN curveCoefficients[curve]

\* an Ns above 175 is in band Ns7
C4_Witness ==
    /\ Returned200
    /\ Gt(locals.Ns, Dec(175, 0))
    /\ locals.Nstatus = "Ns7"

\* C5 as claimed: an Ns equal to a threshold is in the band whose lower
\* bound is that threshold
C5_ThresholdInBandAbove ==
    Returned200 =>
        \A i \in DOMAIN Thresholds :
            Eq(locals.Ns, Thresholds[i]) => locals.Nstatus = BandAbove[i]

\* C5 as amended: each band excludes its lower threshold and includes its
\* upper one, so an Ns equal to a threshold is in the band whose upper bound
\* is that threshold (Ns = 20 is Ns1, Ns = 175 is Ns6)
C5_ThresholdInBandBelow ==
    Returned200 =>
        \A i \in DOMAIN Thresholds :
            /\ Eq(locals.Ns, Thresholds[i]) => locals.Nstatus = BandBelow[i]
            /\ locals.Nstatus = BandAbove[i] => Gt(locals.Ns, Thresholds[i])
            /\ locals.Nstatus = BandBelow[i] => Le(locals.Ns, Thresholds[i]) \/ IsNaN(locals.Ns)

\* Ns is exactly 175 and the band is Ns6
C5_Witness ==
    /\ Returned200
    /\ Eq(locals.Ns, Dec(175, 0))
    /\ locals.Nstatus = "Ns6"

\* C6: each of the six warnings is in the list if and only if its own
\* predicate holds, whatever the other warnings do
C6_WarningsIndependent ==
    Returned200 =>
        LET w == RangeOf(response.body.warnings)
        IN  /\ WarnNsLow \in w <=> Lt(locals.Ns, Dec(20, 0))
            /\ WarnNsHigh \in w <=> Gt(locals.Ns, Dec(250, 0))
            /\ WarnTipSpeed \in w <=> Gt(locals.U2, Dec(55, 0))
            /\ WarnNpsha \in w <=> Gt(locals.NPSHA, Dec(10, 0))
            /\ WarnNssHigh \in w <=> Gt(locals.Nss, Dec(213, 0))
            /\ WarnNssLow \in w <=> Lt(locals.Nss, Dec(50, 0))
            /\ w \subseteq {WarnNsLow, WarnNsHigh, WarnTipSpeed, WarnNpsha, WarnNssHigh, WarnNssLow}

\* Ns > 250 and U2 > 55 together: both critical warnings are in the list
C6_Witness ==
    /\ Returned200
    /\ Gt(locals.Ns, Dec(250, 0))
    /\ Gt(locals.U2, Dec(55, 0))
    /\ {WarnNsHigh, WarnTipSpeed} \subseteq RangeOf(response.body.warnings)

\* the flow fractions of the curve, in percent
Fractions == <<0, 25, 50, 75, 100, 130>>

\* C7: the curve of every successful response has the sequences flow, head,
\* efficiency, NPSH and power, each of length 6, the flow entries being 0%,
\* 25%, 50%, 75%, 100% and 130% of the rated flow in that order, and
\* non-decreasing
C7_CurveShape ==
    Returned200 =>
        LET pd == response.body.performanceData
        IN  /\ {"flowPoints", "headPoints", "efficiencyPoints", "npshPoints", "powerPoints"}
                   \subseteq DOMAIN pd
            /\ \A f \in DOMAIN pd : Len(pd[f]) = 6
            /\ \A i \in 1..6 :
                   pd.flowPoints[i]
                       = JsonNumber(Div(Mul(Int2Num(Fractions[i]), locals.Q), Hundred))
            /\ \A i \in 1..5 :
                   Le(locals.performanceData.flowPoints[i],
                      locals.performanceData.flowPoints[i + 1])

\* the efficiency fraction a power point divides by: efficiency / 100, or
\* 0.01 when that is 0 or not a number
Divisor(eff) ==
    LET e == Div(eff, Hundred)
    IN  IF IsNaN(e) \/ Eq(e, Zero) THEN Dec(1, -2) ELSE e

\* flow * head * SG / (367.63 * e)
PowerFormula(flow, head, SG, e) == Div(Mul(Mul(flow, head), SG), Mul(Dec(36763, -2), e))

\* C8 as claimed: point 0 has 0.9 times the power computed at the 25% point,
\* and every other point has flow * head * SG / (367.63 * efficiency / 100)
\* of its own flow, head and efficiency
C8_PowerByPlainFormula ==
    Returned200 =>
        LET pd == locals.performanceData
            P(i) == PowerFormula(pd.flowPoints[i], pd.headPoints[i], locals.SG,
                               Div(pd.efficiencyPoints[i], Hundred))
        IN  \A i \in 2..6 : pd.powerPoints[i] = P(i)

\* C8 as amended: point 0 has 0.9 times the power computed at the 25% point,
\* and every other point has flow * head * SG / (367.63 * e) of its own flow,
\* head and efficiency, where e is efficiency / 100, or 0.01 when that is 0
\* or not a number (at the 25% point too, for the power of point 0)
C8_PowerWithFloor ==
    Returned200 =>
        LET pd == locals.performanceData
            P(i) == PowerFormula(pd.flowPoints[i], pd.headPoints[i], locals.SG,
                               Divisor(pd.efficiencyPoints[i]))
        IN  /\ pd.powerPoints[1] = Mul(Dec(9, -1), P(2))
            /\ \A i \in 2..6 : pd.powerPoints[i] = P(i)
            /\ \A i \in 1..6 :
                   response.body.performanceData.powerPoints[i] = JsonNumber(pd.powerPoints[i])

\* a positive rated flow, a positive power at the 25% point, and a point
\* whose efficiency of 0 is replaced by 0.01
C8_Witness ==
    /\ Returned200
    /\ Gt(locals.Q, Zero)
    /\ Gt(locals.performanceData.powerPoints[2], Zero)
    /\ locals.performanceData.powerPoints[1]
           = Mul(Dec(9, -1), locals.performanceData.powerPoints[2])
    /\ \E i \in 2..6 : Eq(locals.performanceData.efficiencyPoints[i], Zero)

\* Math.max(0, Math.min(100, x)) spelled out: NaN stays NaN
Clamped(x) ==
    IF IsNaN(x) THEN NaN
    ELSE IF Lt(x, Zero) THEN Zero
    ELSE IF Gt(x, Hundred) THEN Hundred
    ELSE x

\* the efficiency in percent of the estimate before the clamp
AlternateEfficiency(Q, Ns, Eff) ==
    IF SecondClause(Q, Ns) THEN Mul(newEfficiencyPoly(Ns), Hundred)
    ELSE Sub(Mul(Eff, Hundred), Dec(989, -2))

\* C9: when the estimate is produced its efficiency is the degree-7
\* polynomial in Ns when Ns < 18 and flow <= 20, and the baseline efficiency
\* less 9.89 points when 20 < flow < 61 and Ns < 20; it is then clamped to
\* [0, 100], and the power is flow * head * SG / (367.63 * clamped / 100)
C9_AlternateEstimate ==
    (Returned200 /\ AlternatePresent) =>
        LET c == Clamped(AlternateEfficiency(locals.Q, locals.Ns, locals.Eff))
            kW == PowerFormula(locals.Q, locals.TDHm, locals.SG, Div(c, Hundred))
            est == response.body.newPumpPerformance.v
        IN  /\ SecondClause(locals.Q, locals.Ns) \/ FirstClause(locals.Q, locals.Ns)
            /\ est.efficiency = JsonNumber(ToFixed(c, 2))
            /\ est.hydpower = JsonNumber(ToFixed(kW, 2))

\* the first clause with a baseline efficiency below 9.89%: the estimate's
\* efficiency is clamped to 0
C9_Witness ==
    /\ Returned200
    /\ AlternatePresent
    /\ FirstClause(locals.Q, locals.Ns)
    /\ Lt(Mul(locals.Eff, Hundred), Dec(989, -2))
    /\ response.body.newPumpPerformance.v.efficiency = Zero

ScalarFields ==
    {"efficiency", "uns", "ns", "unss", "nss", "phi", "angvel", "tipspeed", "impdia",
     "headstage", "hydpower", "reynolds", "cq", "ch", "ce"}

\* C10: a 200 result has no null where a number belongs: not in the scalar
\* fields, not in the curve sequences, not in the alternate estimate
C10_NoNullNumber ==
    Returned200 =>
        LET b == response.body
        IN  /\ \A f \in ScalarFields : b[f].k # "null"
            /\ \A f \in DOMAIN b.performanceData :
                   \A i \in DOMAIN b.performanceData[f] : b.performanceData[f][i].k # "null"
            /\ AlternatePresent =>
                   \A f \in DOMAIN b.newPumpPerformance.v : b.newPumpPerformance.v[f].k # "null"

\* C11: every payload that passes the validation has num_impellers >= 1,
\* suctype 1 or 2, and n, q and tdhm strictly positive (so that HeadStage, Ns,
\* Nss, r2 and Re divide by nothing that is zero)
C11_AcceptedInputsValid ==
    Returned200 =>
        /\ Ge(locals.NumImpellers, One)
        /\ locals.SucType \in {One, Two}
        /\ Gt(locals.N, Zero)
        /\ Gt(locals.Q, Zero)
        /\ Gt(locals.TDHm, Zero)

\* C12: an invocation that returns a result returns what every invocation
\* with the same event returns, whenever that one runs: the same numeric
\* fields, band, warnings in the same order, curve sequences and alternate
\* estimate, computed from the same locals
C12_Deterministic ==
    Returned200 =>
        \A now \in 0..MaxTime :
            handler(event, now) = [response |-> response, locals |-> locals]

\* a result with two warnings at least and with the alternate estimate
C12_Witness ==
    /\ Returned200
    /\ Len(response.body.warnings) >= 2
    /\ AlternatePresent

\* the result body for the event ev with its viscosity replaced by v
BodyAtViscosity(ev, v) ==
    handler([ev EXCEPT !.body.payload.viscosity = v], 0).response.body

\* the fields of the result that the viscosity may change
ViscousFields == {"reynolds", "ch", "ce"}

\* C13: the flow correction factor of a result is 1, and the same payload
\* with another viscosity gives a result with the same efficiency, hydraulic
\* power, band, warnings, performance curve and alternate estimate: only
\* reynolds, ch and ce may differ
C13_ViscosityAdvisory ==
    Returned200 =>
        /\ locals.viscous.CQ = One
        /\ response.body.cq = One
        /\ \A other \in {BodyAtViscosity(event, v) : v \in Viscosities} :
               \A f \in DOMAIN response.body \ ViscousFields : other[f] = response.body[f]

\* a result for a viscous fluid whose reynolds and ch are not those of the
\* same payload at viscosity 1
C13_Witness ==
    /\ Returned200
    /\ event.body.payload.viscosity = Dec(100, 0)
    /\ BodyAtViscosity(event, One).reynolds # response.body.reynolds
    /\ BodyAtViscosity(event, One).ch # response.body.ch
    /\ response.body.efficiency.k = "fin"

\* C14: Phi is 0.4 / sqrt(Uns) when Uns > 1 and 0.4 / Uns^0.25 when
\* Uns <= 1, Uns = 1 included
C14_PhiBranch ==
    Returned200 =>
        /\ Gt(locals.Uns, One) => locals.Phi = Div(Dec(4, -1), MathSqrt(locals.Uns))
        /\ Le(locals.Uns, One) => locals.Phi = Div(Dec(4, -1), MathPow(locals.Uns, Quarter))

\* Uns just above 1, where the two formulas differ
C14_Witness ==
    /\ Returned200
    /\ Gt(locals.Uns, One)
    /\ Lt(locals.Uns, Dec(10001, -4))
    /\ locals.Phi = Div(Dec(4, -1), MathSqrt(locals.Uns))
    /\ locals.Phi # Div(Dec(4, -1), MathPow(locals.Uns, Quarter))

\* |a - b| <= tol for finite a and b
Within(a, b, tol) == IsFinite(a) /\ IsFinite(b) /\ Le(Magnitude(Sub(a, b)), tol)

\* the floating tolerance of a value x: one part in a million
FloatTolerance(x) == Mul(Magnitude(x), Dec(1, -6))

\* C15: in every result HeadStage times NumImpellers is TDHm within the
\* floating tolerance, and so is the reported headstage times NumImpellers
\* within that and the rounding of headstage to one decimal (0.05 a stage)
C15_StagesMakeTotal ==
    Returned200 =>
        /\ Within(Mul(locals.HeadStage, locals.NumImpellers), locals.TDHm,
                  FloatTolerance(locals.TDHm))
        /\ Within(Mul(response.body.headstage, locals.NumImpellers), locals.TDHm,
                  Add(Mul(Dec(5, -2), Magnitude(locals.NumImpellers)),
                      FloatTolerance(locals.TDHm)))

\* the locals for the event ev with its number of impellers replaced by k
LocalsAtImpellers(ev, k) == PumpLocals([ev.body.payload EXCEPT !.num_impellers = k])

\* the regression efficiency: 0.94 - 0.08955 (Qus / N)^-0.2133
\* - 0.29 log10(2286 / Nus)^2
Regression(Qus, N, Nus) ==
    Sub(Sub(Dec(94, -2), Mul(Dec(8955, -5), MathPow(Div(Qus, N), Dec(-2133, -4)))),
        Mul(Dec(29, -2), MathPow(MathLog10(Div(Dec(2286, 0), Nus)), Two)))

\* the penalty of k stages: 0.005 (k - 1)
StagePenalty(k) == Mul(Dec(5, -3), Sub(k, One))

Approx(a, b, tol) == a = b \/ Within(a, b, tol)

\* the place of 100 in flowPercentages = [0, 25, 50, 75, 100, 130], counted from 1
RatedPoint == 5

\* one part in a thousand of x
CurveTolerance(x) == Mul(Magnitude(x), Dec(1, -3))

\* the head and efficiency polynomials of every band are 100 at 100%
PolynomialsRated ==
    \A band \in Bands :
        /\ Within(interpolated.head[band][RatedPoint], Hundred, Dec(1, -1))
        /\ Within(interpolated.efficiency[band][RatedPoint], Hundred, Dec(1, -1))

\* C17 as claimed: the polynomials are 100 at 100%, and the 100% point of
\* the curve has TDHm as its head and the baseline efficiency in percent as
\* its efficiency
C17_RatedPointReproduces ==
    /\ PolynomialsRated
    /\ Returned200 =>
           /\ Approx(locals.performanceData.headPoints[RatedPoint], locals.TDHm,
                     CurveTolerance(locals.TDHm))
           /\ Approx(locals.performanceData.efficiencyPoints[RatedPoint],
                     Mul(locals.Eff, Hundred), Dec(1, -1))

\* C17 as amended: the polynomials are 100 at 100%, and the 100% point of
\* the curve has TDHm as its head and the baseline efficiency in percent,
\* clamped to [0, 100], as its efficiency
C17_RatedPointClamped ==
    /\ PolynomialsRated
    /\ Returned200 =>
           /\ Approx(locals.performanceData.headPoints[RatedPoint], locals.TDHm,
                     CurveTolerance(locals.TDHm))
           /\ Approx(locals.performanceData.efficiencyPoints[RatedPoint],
                     Clamped(Mul(locals.Eff, Hundred)), Dec(1, -1))

\* a positive speed, flow and head with a negative baseline efficiency: the
\* 100% point has the head TDHm and the efficiency 0
C17_Witness ==
    /\ Returned200
    /\ Gt(locals.N, Zero) /\ Gt(locals.Q, Zero) /\ Ge(locals.NumImpellers, One)
    /\ IsFinite(locals.Eff) /\ Lt(locals.Eff, Zero)
    /\ locals.performanceData.efficiencyPoints[RatedPoint] = Zero
    /\ Within(locals.performanceData.headPoints[RatedPoint], locals.TDHm,
              CurveTolerance(locals.TDHm))

\* C18: after a 200 every efficiency value of the performance curve lies in
\* [0, 100] and every NPSH value is at least 0
C18_CurveRanges ==
    Returned200 =>
        /\ \A i \in DOMAIN locals.performanceData.efficiencyPoints :
               /\ Ge(locals.performanceData.efficiencyPoints[i], Zero)
               /\ Le(locals.performanceData.efficiencyPoints[i], Hundred)
        /\ \A i \in DOMAIN locals.performanceData.npshPoints :
               Ge(locals.performanceData.npshPoints[i], Zero)

\* the request passed the method gate and its try block threw
ThrewAfterGate == event.httpMethod = "POST" /\ handlerTry(event).thrown

\* C19: an exception raised after the method gate is answered with status
\* 500, the generic error, the exception's message as details and a
\* timestamp, never with a 200; the handler returns a response for every
\* event it is invoked with, and every response has status 200, 400, 405
\* or 500
C19_ExceptionsSurfaced ==
    /\ phase = "invoked" => handler(event, MaxTime).response.statusCode \in {200, 400, 405, 500}
    /\ phase = "returned" =>
           /\ response.statusCode \in {200, 400, 405, 500}
           /\ ThrewAfterGate <=> response.statusCode = 500
           /\ response.statusCode = 500 =>
                  /\ response.body.error = "Server error during pump calculation"
                  /\ response.body.details = handlerTry(event).message
                  /\ response.body.timestamp \in 0..MaxTime
                  /\ locals = NoLocals

\* a body that is not JSON and a body that parses to null have each been
\* answered with a 500
C19_Witness ==
    /\ phase = "returned"
    /\ event.httpMethod = "POST"
    /\ event.body.kind \in {"invalid", "null"}
    /\ response.statusCode = 500
    /\ response.body.details \in {"SyntaxError", "TypeError"}
    /\ response.body.timestamp = MaxTime

\* the response of the handler to the event ev with its body replaced by b
ResponseWithBody(ev, b) == handler([ev EXCEPT !.body = b], 0).response

\* C20: an OPTIONS request gets status 200 with an empty body, a request
\* that is neither OPTIONS nor POST gets 405 "Method not allowed", both
\* whatever the body is, and only a POST gets a response made from the
\* parsed body (a result, a field error or a server error)
C20_MethodGate ==
    phase = "returned" =>
        /\ event.httpMethod = "OPTIONS" =>
               /\ response = [statusCode |-> 200, body |-> [kind |-> "empty"]]
               /\ \A b \in Bodies : ResponseWithBody(event, b) = response
        /\ event.httpMethod \notin {"OPTIONS", "POST"} =>
               /\ response = [statusCode |-> 405,
                              body |-> [kind |-> "error", error |-> "Method not allowed"]]
               /\ \A b \in Bodies : ResponseWithBody(event, b) = response
        /\ (response.body.kind = "result" \/ response.statusCode \in {400, 500}) =>
               event.httpMethod = "POST"
        /\ event.httpMethod # "POST" => locals = NoLocals

\* an OPTIONS request whose body is not JSON has been answered with the
\* empty 200
C20_Witness ==
    /\ phase = "returned"
    /\ event.httpMethod = "OPTIONS"
    /\ event.body.kind = "invalid"
    /\ response.statusCode = 200
    /\ response.body.kind = "empty"

\* a GET whose body is not JSON has been answered with 405
C20_WitnessOther ==
    /\ phase = "returned"
    /\ event.httpMethod = "GET"
    /\ event.body.kind = "invalid"
    /\ response.statusCode = 405

\* C21 as claimed: "Ns is too low!" is among the warnings exactly when the
\* band is Ns1, and "Ns is too high" only when the band is Ns7
C21_LowWarningIffBand ==
    Returned200 =>
        /\ WarnNsLow \in RangeOf(response.body.warnings) <=> response.body.nstatus = "Ns1"
        /\ WarnNsHigh \in RangeOf(response.body.warnings) => response.body.nstatus = "Ns7"

\* C21 as amended: "Ns is too low!" is among the warnings exactly when
\* Ns < 20, and then the band is Ns1; "Ns is too high" only when the band
\* is Ns7
C21_LowWarningOnlyInBand ==
    Returned200 =>
        /\ WarnNsLow \in RangeOf(response.body.warnings) <=> Lt(locals.Ns, Dec(20, 0))
        /\ WarnNsLow \in RangeOf(response.body.warnings) => response.body.nstatus = "Ns1"
        /\ WarnNsHigh \in RangeOf(response.body.warnings) => response.body.nstatus = "Ns7"

\* Ns is 20 for a positive speed, flow and head: the band is Ns1 and the
\* list has no "Ns is too low!"
C21_Witness ==
    /\ Returned200
    /\ Gt(locals.N, Zero) /\ Gt(locals.Q, Zero) /\ Ge(locals.NumImpellers, One)
    /\ locals.Ns = Dec(20, 0)
    /\ response.body.nstatus = "Ns1"
    /\ WarnNsLow \notin RangeOf(response.body.warnings)

\* C22: a response with the alternate estimate has the band Ns1, the
\* warning "Ns is too low!" and no "Ns is too high" warning
C22_AlternateImpliesLowNs ==
    (Returned200 /\ AlternatePresent) =>
        /\ response.body.nstatus = "Ns1"
        /\ WarnNsLow \in RangeOf(response.body.warnings)
        /\ WarnNsHigh \notin RangeOf(response.body.warnings)

\* a response with the alternate estimate for a positive speed and flow
C22_Witness ==
    /\ Returned200
    /\ AlternatePresent
    /\ Gt(locals.N, Zero) /\ Gt(locals.Q, Zero)
    /\ response.body.nstatus = "Ns1"
    /\ response.body.warnings[1] = WarnNsLow

\* C23: when the alternate estimate is present its efficiency, the divisor
\* of its hydraulic power, is above 0 and its hydraulic power is finite
C23_AlternatePowerFinite ==
    (Returned200 /\ AlternatePresent) =>
        /\ Gt(locals.newPumpPerformance.v.efficiency, Zero)
        /\ IsFinite(locals.newPumpPerformance.v.hydpower)

\* C24: the efficiency fraction every power point of the curve divides by
\* is above 0, being 0.01 where the efficiency point is 0 or not a number,
\* so every power point is a finite quotient
C24_PowerDivisorPositive ==
    Returned200 =>
        LET pd == locals.performanceData
        IN  \A i \in DOMAIN pd.powerPoints :
                LET used == IF i = 1 THEN 2 ELSE i
                    quotient == PowerFormula(pd.flowPoints[used], pd.headPoints[used],
                                             locals.SG, Divisor(pd.efficiencyPoints[used]))
                IN  /\ Gt(Divisor(pd.efficiencyPoints[i]), Zero)
                    /\ (IsNaN(pd.efficiencyPoints[i]) \/ Eq(pd.efficiencyPoints[i], Zero))
                           => Divisor(pd.efficiencyPoints[i]) = Dec(1, -2)
                    /\ IsFinite(pd.powerPoints[i])
                    /\ i # 1 => pd.powerPoints[i] = quotient

\* the efficiency points at 0% and at 25% are both 0 for a positive speed
\* and flow, and the power at 25% is the quotient by 0.01
C24_Witness ==
    /\ Returned200
    /\ Gt(locals.N, Zero) /\ Gt(locals.Q, Zero)
    /\ locals.performanceData.efficiencyPoints[1] = Zero
    /\ locals.performanceData.efficiencyPoints[2] = Zero
    /\ locals.performanceData.powerPoints[2]
           = PowerFormula(locals.performanceData.flowPoints[2],
                          locals.performanceData.headPoints[2], locals.SG, Dec(1, -2))
    /\ IsFinite(locals.performanceData.powerPoints[1])

\* C25: after a 200 of the mooring handler its test "Static tension drops
\* with more lines" has passed: four more lines give a larger effective
\* line count and a lower static tension per line
C25_TestBPasses ==
    Returned200 =>
        /\ Gt(effLines(locals.system, Add(locals.nlines, Dec(4, 0))), locals.neff)
        /\ response.body.tests[2].name = "Static tension drops with more lines"
        /\ response.body.tests[2].pass

\* the token endpoint has returned
TokenReturned == phase = "returned" /\ "env" \in DOMAIN event

\* the request names a user: a non-empty x-murphy-user-id header under
\* either spelling, or a murphy_session cookie
SessionRecognised ==
    \/ \E h \in {"x-murphy-user-id", "X-Murphy-User-Id"} :
           h \in DOMAIN event.headers /\ event.headers[h] # ""
    \/ /\ "cookie" \in DOMAIN event.headers
       /\ \E i \in DOMAIN event.headers.cookie : event.headers.cookie[i].name = "murphy_session"

\* the request's origin is given, ALLOWED_ORIGIN is set, and they differ
OriginMismatch ==
    /\ event.env.ALLOWED_ORIGIN # ""
    /\ \/ /\ "origin" \in DOMAIN event.headers
          /\ event.headers["origin"] # event.env.ALLOWED_ORIGIN
       \/ /\ "origin" \notin DOMAIN event.headers
          /\ "Origin" \in DOMAIN event.headers
          /\ event.headers["Origin"] # event.env.ALLOWED_ORIGIN

\* C26: the token endpoint answers 405 to a method that is neither GET nor
\* POST, else 403 to a mismatching origin, else 401 to a request without a
\* session, else 500 without JWT_SIGNING_SECRET, and 200 with a token only
\* when all four pass; the token is signed with the secret and its exp is
\* its iat + 600 seconds
C26_TokenGuards ==
    /\ (TokenReturned /\ event.headers = Undefined) =>
           (response.statusCode \in {405, 500} /\ response.body.kind = "error")
    /\ (TokenReturned /\ event.headers # Undefined) =>
        /\ response.statusCode =
               (IF event.httpMethod \notin {"GET", "POST"} THEN 405
                ELSE IF OriginMismatch THEN 403
                ELSE IF ~SessionRecognised THEN 401
                ELSE IF event.env.JWT_SIGNING_SECRET = "" THEN 500
                ELSE 200)
        /\ response.body.kind = "token" <=> response.statusCode = 200
        /\ ~SessionRecognised => response.body.kind # "token"
        /\ response.body.kind = "token" =>
               /\ response.body.token.key = event.env.JWT_SIGNING_SECRET
               /\ response.body.token.payload.exp = response.body.token.payload.iat + 600
               /\ response.body.token.payload.iat = locals.now
               /\ response.body.expiresInSeconds = 600

\* a token issued after the first second to a request whose only sign of
\* a session is its cookie, from the allowed origin
C26_Witness ==
    /\ TokenReturned
    /\ event.headers # Undefined
    /\ event.env.ALLOWED_ORIGIN # ""
    /\ OrString(HeaderOf(event.headers, "x-murphy-user-id"),
                HeaderOf(event.headers, "X-Murphy-User-Id")) = ""
    /\ response.statusCode = 200
    /\ response.body.token.payload.sub = "session-user"
    /\ response.body.token.payload.iat > 0
    /\ response.body.token.payload.exp = response.body.token.payload.iat + 600

\* the electrical handler has returned a computed result
ElectricalReturned200 ==
    phase = "returned" /\ response.statusCode = 200 /\ response.body.kind = "result"
        /\ "kW_req" \in DOMAIN locals

\* the five unit ratings with their recommendations
GeneratorOptions ==
    {[unit |-> locals.unitA, rec |-> locals.A], [unit |-> locals.unitB, rec |-> locals.B],
     [unit |-> locals.unitC, rec |-> locals.C], [unit |-> locals.unitD, rec |-> locals.D],
     [unit |-> locals.unitE, rec |-> locals.E]}

C28_FallbackUnreachable ==
    Returned200 =>
        LET first == FirstClause(locals.Q, locals.Ns)
            second == SecondClause(locals.Q, locals.Ns)
            arm == newEfficiencyBranch(locals.Ns, locals.Q)
        IN  /\ ~(first /\ second)
            /\ first => Gt(locals.Q, Dec(20, 0))
            /\ second => ~Gt(locals.Q, Dec(20, 0))
            /\ AlternatePresent =>
                   /\ arm # "fallback"
                   /\ (arm = "first") <=> first
                   /\ (arm = "second") <=> second

\* the estimate computed by the first arm, for a flow of 30 and an Ns
\* between 0 and 20
C28_Witness ==
    /\ Returned200
    /\ AlternatePresent
    /\ newEfficiencyBranch(locals.Ns, locals.Q) = "first"
    /\ locals.Q = Dec(30, 0)
    /\ Gt(locals.Ns, Zero)

\* the estimate computed by the second arm, for a flow of 20 and an Ns
\* between 0 and 18
C28_WitnessSecond ==
    /\ Returned200
    /\ AlternatePresent
    /\ newEfficiencyBranch(locals.Ns, locals.Q) = "second"
    /\ locals.Q = Dec(20, 0)
    /\ Gt(locals.Ns, Zero)

====
